---- MODULE Spec2Model ----
(***************************************************************************)
(* sbl2py: a Snowball to Python compiler.                                  *)
(*                                                                         *)
(* The model has three layers, each translated from src/src/sbl2py:        *)
(*   1. the run-time string machine _String of the emitted module          *)
(*      (ast.py, _MODULE_TEMPLATE);                                        *)
(*   2. the code generator: which template each AST node emits for the     *)
(*      ambient direction, and how among tables get their index;           *)
(*   3. the behaviour of the emitted code, template by template.           *)
(* A state of the specification is one run of one generated command on    *)
(* one string machine.                                                     *)
(***************************************************************************)
EXTENDS Integers, Sequences, FiniteSets, TLC

\* ------------------------------------------------------------------------
\* Bounds of the model
\* ------------------------------------------------------------------------

\* Longest buffer a run starts from.
MaxLen == 3

\* Iterations after which a generated `while True` loop is taken to diverge.
MaxIter == 8

\* The characters buffers are made of.
Alphabet == {"a", "b"}

\* ------------------------------------------------------------------------
\* Python list and slice semantics
\* ------------------------------------------------------------------------

Min(x, y) == IF x <= y THEN x ELSE y

Max(x, y) == IF x >= y THEN x ELSE y

\* A slice index brought into 0..n: negative indices count from the end.
PyIndex(i, n) == IF i < 0 THEN Max(i + n, 0) ELSE Min(i, n)

\* seq[a:b]
PySlice(seq, a, b) ==
  LET lo == PyIndex(a, Len(seq))
      hi == PyIndex(b, Len(seq))
  IN SubSeq(seq, lo + 1, hi)

\* seq[a:b] = new
PySliceAssign(seq, a, b, new) ==
  LET lo == PyIndex(a, Len(seq))
      hi == Max(PyIndex(b, Len(seq)), lo)
  IN SubSeq(seq, 1, lo) \o new \o SubSeq(seq, hi + 1, Len(seq))

\* seq[::-1]
Reverse(seq) == [i \in 1..Len(seq) |-> seq[Len(seq) + 1 - i]]

\* seq[::step] for step in {1, -1}
PyStride(seq, step) == IF step = 1 THEN seq ELSE Reverse(seq)

\* ------------------------------------------------------------------------
\* The string machine _String.  A machine value m carries the fields of the
\* _String object (chars, cursor, limit, direction); the operations return
\* the machine after the call with the call's return value in m.r.
\* ------------------------------------------------------------------------

\* _String.__init__, together with the fields of the running routine: the
\* local r (True at the start of every routine), the slice anchors left and
\* right of _Program.__init__ (None is <<>>, a set anchor v is <<v>>), the
\* among selectors a_k (none assigned yet), the trace of the run and whether
\* the run is still going (no exception was raised, no loop diverged).
NewString(w) ==
  [chars |-> w, cursor |-> 0, limit |-> Len(w), direction |-> 1,
   r |-> TRUE, left |-> <<>>, right |-> <<>>, a |-> {},
   log |-> <<>>, ok |-> TRUE]

get_range(m, start, stop) ==
  IF m.direction = 1
  THEN PySlice(m.chars, start, stop)
  ELSE PySlice(m.chars, stop, start)

\* starts_with comparing with chars as written, without `[::self.direction]`
\* on the right-hand side.
starts_with_as_written(m, chars) ==
  LET n == Len(chars)
      r == PySlice(PyStride(get_range(m, m.cursor, m.limit), m.direction), 0, n)
  IN IF r # chars
     THEN [m EXCEPT !.r = FALSE]
     ELSE [m EXCEPT !.cursor = m.cursor + n * m.direction, !.r = TRUE]

starts_with(m, chars) ==
  LET n == Len(chars)
      r == PySlice(PyStride(get_range(m, m.cursor, m.limit), m.direction), 0, n)
  IN IF r # PyStride(chars, m.direction)
     THEN [m EXCEPT !.r = FALSE]
     ELSE [m EXCEPT !.cursor = m.cursor + n * m.direction, !.r = TRUE]

\* hop without the test `n < 0`.
hop_without_sign_test(m, n) ==
  IF Len(get_range(m, m.cursor, m.limit)) < n
  THEN [m EXCEPT !.r = FALSE]
  ELSE [m EXCEPT !.cursor = m.cursor + n * m.direction, !.r = TRUE]

hop(m, n) ==
  IF n < 0 \/ Len(get_range(m, m.cursor, m.limit)) < n
  THEN [m EXCEPT !.r = FALSE]
  ELSE [m EXCEPT !.cursor = m.cursor + n * m.direction, !.r = TRUE]

\* insert moving the cursor in backward mode as attach does.
insert_moving_cursor(m, chars) ==
  LET m1 == [m EXCEPT !.chars = PySliceAssign(m.chars, m.cursor, m.cursor, chars),
                      !.r = TRUE]
  IN IF m.direction = 1
     THEN [m1 EXCEPT !.cursor = m.cursor + Len(chars),
                     !.limit = m.limit + Len(chars)]
     ELSE [m1 EXCEPT !.cursor = m.cursor + Len(chars)]

insert(m, chars) ==
  LET m1 == [m EXCEPT !.chars = PySliceAssign(m.chars, m.cursor, m.cursor, chars),
                      !.r = TRUE]
  IN IF m.direction = 1
     THEN [m1 EXCEPT !.cursor = m.cursor + Len(chars),
                     !.limit = m.limit + Len(chars)]
     ELSE m1

attach(m, chars) ==
  LET m1 == [m EXCEPT !.chars = PySliceAssign(m.chars, m.cursor, m.cursor, chars),
                      !.r = TRUE]
  IN IF m.direction = 1
     THEN [m1 EXCEPT !.limit = m.limit + Len(chars)]
     ELSE [m1 EXCEPT !.cursor = m.cursor + Len(chars)]

set_range(m, start, stop, chars) ==
  LET cs == IF m.direction = 1
            THEN PySliceAssign(m.chars, start, stop, chars)
            ELSE PySliceAssign(m.chars, stop, start, chars)
      change == m.direction * (Len(chars) - (stop - start))
      m1 == [m EXCEPT !.chars = cs, !.r = TRUE]
  IN IF m.direction = 1
     THEN IF m.cursor >= stop
          THEN [m1 EXCEPT !.cursor = m.cursor + change,
                          !.limit = m.limit + change]
          ELSE m1
     ELSE [m1 EXCEPT !.cursor = IF m.cursor > start
                                THEN m.cursor + change ELSE m.cursor,
                     !.limit = IF m.limit > start
                               THEN m.limit + change ELSE m.limit]

to_mark(m, mark) ==
  IF m.direction = 1
  THEN IF m.cursor > mark \/ m.limit < mark
       THEN [m EXCEPT !.r = FALSE]
       ELSE [m EXCEPT !.cursor = mark, !.r = TRUE]
  ELSE IF m.cursor < mark \/ m.limit > mark
       THEN [m EXCEPT !.r = FALSE]
       ELSE [m EXCEPT !.cursor = mark, !.r = TRUE]

set_chars(m, chars) ==
  IF m.direction = 1
  THEN [m EXCEPT !.chars = chars, !.cursor = 0, !.limit = Len(chars),
                 !.r = TRUE]
  ELSE [m EXCEPT !.chars = chars, !.cursor = Len(chars), !.limit = 0,
                 !.r = TRUE]

\* ------------------------------------------------------------------------
\* The AST.  A node is <<class, attr, children>>: its class name, its
\* static attribute (the literal of a leaf, the count of loop and atleast,
\* the strings, commands and common_cmd of an among) and its child nodes.
\* ------------------------------------------------------------------------

Class(n) == n[1]

Attr(n) == n[2]

Children(n) == n[3]

Leaf(class, attr) == <<class, attr, <<>>>>

Unary(class, c) == <<class, <<>>, <<c>>>>

\* Classes that define backwards_code next to code.
HasBackwardsCode(class) ==
  class \in {"DoNode", "GoToNode", "GoPastNode", "GroupingNode", "NonNode"}

Front(s) == SubSeq(s, 1, Len(s) - 1)

Last(s) == s[Len(s)]

\* A node of a tree is named by its address from the top node: a step i >= 1
\* goes to child i; a step 0 goes to the common_cmd of an AmongNode and a
\* step -i to its i-th command.  An among keeps these commands in attributes,
\* not among its children, so their parent is None: each is the root of a
\* tree of its own.
RECURSIVE NodeAt(_, _)
NodeAt(top, addr) ==
  IF addr = <<>>
  THEN top
  ELSE LET step == Head(addr)
           sub == IF step > 0 THEN Children(top)[step]
                  ELSE IF step = 0 THEN Attr(top).common_cmd[1]
                  ELSE Attr(top).commands[-step][1]
       IN NodeAt(sub, Tail(addr))

\* node.parent is not None
HasParent(addr) == addr # <<>> /\ Last(addr) > 0

\* Node.next, the part after `except IndexError`: the next sibling of the
\* node or of its closest ancestor that has one.  <<a>> is the node found;
\* <<>> stands for the exception next_sibling raises on a node whose parent
\* is None.
RECURSIVE Climb(_, _)
Climb(top, current) ==
  IF ~HasParent(current)
  THEN <<>>
  ELSE IF Last(current) < Len(Children(NodeAt(top, Front(current))))
       THEN << Front(current) \o <<Last(current) + 1>> >>
       ELSE Climb(top, Front(current))

\* Node.next: the next node in depth-first order.
Next_node(top, addr) ==
  IF Len(Children(NodeAt(top, addr))) > 0
  THEN << addr \o <<1>> >>
  ELSE Climb(top, addr)

\* The loop of SubstringNode.generate_code: follow next() until an AmongNode.
RECURSIVE FindAmong(_, _)
FindAmong(top, current) ==
  IF current = <<>>
  THEN <<>>
  ELSE IF Class(NodeAt(top, current[1])) = "AmongNode"
       THEN current
       ELSE FindAmong(top, Next_node(top, current[1]))

\* ------------------------------------------------------------------------
\* Code generation.  env is the Environment: direction, among_index,
\* module_code (the tables _a_k in the order they are emitted) and, for the
\* attribute among_index that a SubstringNode sets on an AmongNode object,
\* the set `assigned` of <<address of the among, index>>.  env.error says
\* that generation raised.
\* Generated code is <<class, attr, children's code, template, direction>>,
\* template being "code" or "backwards_code" and direction the value of
\* env.direction with which the node was generated.  env.class_code holds
\* one <<name, code of the body, address of the definition, direction>>
\* for every routine.
\* ------------------------------------------------------------------------

\* Environment.__init__
Environment(direction) ==
  [direction |-> direction, among_index |-> 0, var_index |-> 0,
   module_code |-> <<>>, class_code |-> <<>>, assigned |-> {},
   error |-> FALSE]

\* Environment.claim_among_index
claim_among_index(env) == [env EXCEPT !.among_index = env.among_index + 1]

Template(c) == c[4]

RECURSIVE Gen(_, _, _)
RECURSIVE GenList(_, _, _, _, _)
RECURSIVE GenCommands(_, _, _, _, _)

\* Node.generate_children_codes
generate_children_codes(top, addr, env) == GenList(top, addr, 1, env, <<>>)

GenList(top, addr, i, env, acc) ==
  IF i > Len(Children(NodeAt(top, addr)))
  THEN [codes |-> acc, env |-> env]
  ELSE LET g == Gen(top, addr \o <<i>>, env)
       IN GenList(top, addr, i + 1, g.env, Append(acc, g.code))

\* _PseudoCodeNode.generate_code (also ConcatenationNode and _IfChainNode,
\* which have one template and generate their children in order)
PseudoCodeNode_generate_code(top, addr, env) ==
  LET n == NodeAt(top, addr)
      template == IF env.direction = 1 \/ ~HasBackwardsCode(Class(n))
                  THEN "code" ELSE "backwards_code"
      g == generate_children_codes(top, addr, env)
  IN [code |-> <<Class(n), Attr(n), g.codes, template, env.direction>>,
      env |-> g.env]
\* BackwardsNode.generate_code without the second `env.direction *= -1`.
BackwardsNode_generate_code_without_restore(top, addr, env) ==
  PseudoCodeNode_generate_code(
    top, addr, [env EXCEPT !.direction = env.direction * (-1)])

\* BackwardsNode.generate_code
BackwardsNode_generate_code(top, addr, env) ==
  LET g == PseudoCodeNode_generate_code(
             top, addr, [env EXCEPT !.direction = env.direction * (-1)])
  IN [code |-> g.code,
      env |-> [g.env EXCEPT !.direction = g.env.direction * (-1)]]

\* SubstringNode.generate_code
SubstringNode_generate_code(top, addr, env) ==
  LET env1 == claim_among_index(env)
      among_index == env1.among_index
      current == FindAmong(top, Next_node(top, addr))
  IN IF current = <<>>
     THEN [code |-> <<"SubstringNode", among_index, <<>>, "code", env.direction>>,
           env |-> [env1 EXCEPT !.error = TRUE]]
     ELSE [code |-> <<"SubstringNode", among_index, <<>>, "code", env.direction>>,
           env |-> [env1 EXCEPT !.assigned =
                      {p \in env1.assigned : p[1] # current[1]}
                      \cup {<<current[1], among_index>>}]]

\* AmongNode.generate_if_chain: the code of each command, <<>> for a missing
\* command (which emits `r = True`).
GenCommands(top, addr, i, env, acc) ==
  IF i > Len(Attr(NodeAt(top, addr)).commands)
  THEN [codes |-> acc, env |-> env]
  ELSE IF Attr(NodeAt(top, addr)).commands[i] = <<>>
       THEN GenCommands(top, addr, i + 1, env, Append(acc, <<>>))
       ELSE LET g == Gen(top, addr \o <<-i>>, env)
            IN GenCommands(top, addr, i + 1, g.env, Append(acc, <<g.code>>))

\* AmongNode.generate_code.  The attribute of the generated code holds the
\* table index, whether the substring step is emitted here, and the code of
\* common_cmd and of the commands.
AmongNode_generate_code(top, addr, env) ==
  LET n == NodeAt(top, addr)
      set == {p \in env.assigned : p[1] = addr}
      fresh == set = {}
      env1 == IF fresh THEN claim_among_index(env) ELSE env
      among_index == IF fresh THEN env1.among_index
                     ELSE (CHOOSE p \in set : TRUE)[2]
      env2 == [env1 EXCEPT !.module_code =
                 Append(env1.module_code, <<among_index, Attr(n).strings>>)]
      common == IF Attr(n).common_cmd = <<>>
                THEN [code |-> <<>>, env |-> env2]
                ELSE LET g == Gen(top, addr \o <<0>>, env2)
                     IN [code |-> <<g.code>>, env |-> g.env]
      cmds == GenCommands(top, addr, 1, common.env, <<>>)
  IN [code |-> <<"AmongNode",
                 [among_index |-> among_index, substring |-> fresh,
                  common_cmd |-> common.code, commands |-> cmds.codes],
                 <<>>, "code", env.direction>>,
      env |-> cmds.env]

\* BackwardModeNode.generate_code without the two `env.direction *= -1`.
BackwardModeNode_generate_code_without_turn(top, addr, env) ==
  LET g == generate_children_codes(top, addr, env)
  IN [code |-> <<"BackwardModeNode", <<>>, <<>>, "code", env.direction>>,
      env |-> g.env]

\* BackwardModeNode.generate_code: the children are generated for what
\* they add to the environment; the node's own code is empty.
BackwardModeNode_generate_code(top, addr, env) ==
  LET g == generate_children_codes(
             top, addr, [env EXCEPT !.direction = env.direction * (-1)])
  IN [code |-> <<"BackwardModeNode", <<>>, <<>>, "code", env.direction>>,
      env |-> [g.env EXCEPT !.direction = g.env.direction * (-1)]]

\* RoutineDefinitionNode.generate_code: the method r_<name> goes to
\* env.class_code; the node's own code is empty.
RoutineDefinitionNode_generate_code(top, addr, env) ==
  LET g == Gen(top, addr \o <<1>>, env)
  IN [code |-> <<"RoutineDefinitionNode", <<>>, <<>>, "code", env.direction>>,
      env |-> [g.env EXCEPT !.class_code =
                 Append(@, <<Attr(NodeAt(top, addr)), g.code, addr,
                             env.direction>>)]]

\* ProgramNode.generate_code: the children are generated in order, and the
\* module is put together from env.module_code and env.class_code.
ProgramNode_generate_code(top, addr, env) ==
  LET g == generate_children_codes(top, addr, env)
  IN [code |-> <<"ProgramNode", <<>>, g.codes, "code", env.direction>>,
      env |-> g.env]

Gen(top, addr, env) ==
  LET class == Class(NodeAt(top, addr))
  IN CASE class = "SubstringNode" -> SubstringNode_generate_code(top, addr, env)
       [] class = "AmongNode" -> AmongNode_generate_code(top, addr, env)
       [] class = "BackwardsNode" -> BackwardsNode_generate_code(top, addr, env)
       [] class = "BackwardModeNode" ->
            BackwardModeNode_generate_code(top, addr, env)
       [] class = "RoutineDefinitionNode" ->
            RoutineDefinitionNode_generate_code(top, addr, env)
       [] class = "ProgramNode" -> ProgramNode_generate_code(top, addr, env)
       [] OTHER -> PseudoCodeNode_generate_code(top, addr, env)

\* ------------------------------------------------------------------------
\* The emitted code, template by template.  Every operator takes the code
\* of a node, the node's address (for the trace), the machine m the code
\* runs on and the emitted module mod (module_code: the among tables,
\* class_code: the routines), and returns the machine after the code.
\* m.log records every entry into and exit from a node's code with the
\* cursor, the limit, r and the direction at that moment, the node's class
\* and the template its code was made from; m.ok becomes
\* FALSE when the code raises or a loop exceeds MaxIter iterations.
\* ------------------------------------------------------------------------

LogNode(m, ev, addr, code) ==
  [m EXCEPT !.log = Append(@, [ev |-> ev, at |-> addr, c |-> m.cursor,
                               l |-> m.limit, r |-> m.r,
                               d |-> m.direction, class |-> Class(code),
                               template |-> Template(code)])]

\* An event that is not the entry into or exit from a node's code.
LogEv(m, ev, addr) == LogNode(m, ev, addr, <<"", <<>>, <<>>, "">>)

Raise(m) == [m EXCEPT !.ok = FALSE]

\* F applied to the value of x, which is computed once.
Bind(x, F(_)) == CHOOSE y \in {F(v) : v \in {x}} : TRUE

RECURSIVE Exec(_, _, _, _)

\* <tN>: the code of child N (counted from 0) at its place in a template
T(code, addr, n, m, mod) == Exec(Children(code)[n + 1], addr \o <<n + 1>>, m, mod)

NotNode(code, addr, m, mod) ==
  LET v == m.cursor
  IN Bind(T(code, addr, 0, m, mod),
          LAMBDA m1 : IF ~m1.r
                      THEN [m1 EXCEPT !.cursor = v, !.r = TRUE]
                      ELSE [m1 EXCEPT !.r = FALSE])

\* TestNode's template without its last line `s.cursor = <v>`.
TestNode_without_restore(code, addr, m, mod) == T(code, addr, 0, m, mod)

TestNode(code, addr, m, mod) ==
  LET v == m.cursor
  IN Bind(T(code, addr, 0, m, mod), LAMBDA m1 : [m1 EXCEPT !.cursor = v])

\* TryNode's template without `s.cursor = <v>` in the failure branch.
TryNode_without_restore(code, addr, m, mod) ==
  Bind(T(code, addr, 0, m, mod), LAMBDA m1 : [m1 EXCEPT !.r = TRUE])

TryNode(code, addr, m, mod) ==
  LET v == m.cursor
  IN Bind(T(code, addr, 0, m, mod),
          LAMBDA m1 : IF ~m1.r THEN [m1 EXCEPT !.r = TRUE, !.cursor = v] ELSE m1)

\* DoNode with the template `code` in both directions: the cursor is saved
\* and restored as it is.
DoNode_code_only(code, addr, m, mod) ==
  LET v == m.cursor
  IN Bind(T(code, addr, 0, m, mod),
          LAMBDA m1 : [m1 EXCEPT !.cursor = v, !.r = TRUE])

DoNode(code, addr, m, mod) ==
  IF Template(code) = "code"
  THEN LET v == m.cursor
       IN Bind(T(code, addr, 0, m, mod),
               LAMBDA m1 : [m1 EXCEPT !.cursor = v, !.r = TRUE])
  ELSE LET v == Len(m.chars) - m.cursor
       IN Bind(T(code, addr, 0, m, mod),
               LAMBDA m1 : [m1 EXCEPT !.cursor = Len(m1.chars) - v, !.r = TRUE])

FailNode(code, addr, m, mod) ==
  Bind(T(code, addr, 0, m, mod), LAMBDA m1 : [m1 EXCEPT !.r = FALSE])

\* The step of the direction a template was written for.
TemplateStep(code) == IF Template(code) = "code" THEN 1 ELSE -1

\* GoToNode: while True: <v> = s.cursor; <t0>; if r or s.cursor == s.limit:
\* s.cursor = <v>; break -- else s.cursor = <v> + 1 (- 1 in backwards_code)
RECURSIVE GoToLoop(_, _, _, _, _)
GoToLoop(code, addr, m, mod, fuel) ==
  IF fuel = 0 \/ ~m.ok
  THEN Raise(m)
  ELSE LET v == m.cursor
       IN Bind(T(code, addr, 0, m, mod),
               LAMBDA m1 :
                 IF m1.r \/ m1.cursor = m1.limit
                 THEN [m1 EXCEPT !.cursor = v]
                 ELSE GoToLoop(code, addr,
                               [m1 EXCEPT !.cursor = v + TemplateStep(code)],
                               mod, fuel - 1))

\* GoToNode's loop stepping on from where <t0> left the cursor instead of
\* from <v>.
RECURSIVE GoToLoop_from_cursor(_, _, _, _, _)
GoToLoop_from_cursor(code, addr, m, mod, fuel) ==
  IF fuel = 0 \/ ~m.ok
  THEN Raise(m)
  ELSE LET v == m.cursor
       IN Bind(T(code, addr, 0, m, mod),
               LAMBDA m1 :
                 IF m1.r \/ m1.cursor = m1.limit
                 THEN [m1 EXCEPT !.cursor = v]
                 ELSE GoToLoop_from_cursor(
                        code, addr,
                        [m1 EXCEPT !.cursor = m1.cursor + TemplateStep(code)],
                        mod, fuel - 1))

GoToNode_from_cursor(code, addr, m, mod) ==
  GoToLoop_from_cursor(code, addr, m, mod, MaxIter)

GoToNode(code, addr, m, mod) == GoToLoop(code, addr, m, mod, MaxIter)

\* GoPastNode: while True: <t0>; if r or s.cursor == s.limit: break -- else
\* s.cursor += 1 (-= 1 in backwards_code)
RECURSIVE GoPastLoop(_, _, _, _, _)
GoPastLoop(code, addr, m, mod, fuel) ==
  IF fuel = 0 \/ ~m.ok
  THEN Raise(m)
  ELSE Bind(T(code, addr, 0, m, mod),
            LAMBDA m1 :
              IF m1.r \/ m1.cursor = m1.limit
              THEN m1
              ELSE GoPastLoop(code, addr,
                              [m1 EXCEPT !.cursor = m1.cursor + TemplateStep(code)],
                              mod, fuel - 1))

GoPastNode(code, addr, m, mod) == GoPastLoop(code, addr, m, mod, MaxIter)

\* RepeatNode: while True: <v> = s.cursor; <t0>; if not r: s.cursor = <v>;
\* break -- and after the loop r = True
RECURSIVE RepeatLoop(_, _, _, _, _)
RepeatLoop(code, addr, m, mod, fuel) ==
  IF fuel = 0 \/ ~m.ok
  THEN Raise(m)
  ELSE LET v == m.cursor
       IN Bind(T(code, addr, 0, m, mod),
               LAMBDA m1 :
                 IF ~m1.r
                 THEN [m1 EXCEPT !.cursor = v, !.r = TRUE]
                 ELSE RepeatLoop(code, addr, m1, mod, fuel - 1))

\* RepeatNode's loop without `s.cursor = <v>` before the break.
RECURSIVE RepeatLoop_without_restore(_, _, _, _, _)
RepeatLoop_without_restore(code, addr, m, mod, fuel) ==
  IF fuel = 0 \/ ~m.ok
  THEN Raise(m)
  ELSE Bind(T(code, addr, 0, m, mod),
            LAMBDA m1 :
              IF ~m1.r
              THEN [m1 EXCEPT !.r = TRUE]
              ELSE RepeatLoop_without_restore(code, addr, m1, mod, fuel - 1))

RepeatNode_without_restore(code, addr, m, mod) ==
  RepeatLoop_without_restore(code, addr, m, mod, MaxIter)

RepeatNode(code, addr, m, mod) == RepeatLoop(code, addr, m, mod, MaxIter)

\* LoopNode: for <v> in xrange(<t0>): <t1>.  The value of the count <t0> is
\* the node's attribute; the command <t1> is the node's only child.
RECURSIVE LoopFor(_, _, _, _, _)
LoopFor(code, addr, m, mod, count) ==
  IF count <= 0 \/ ~m.ok
  THEN m
  ELSE Bind(T(code, addr, 0, m, mod),
            LAMBDA m1 : LoopFor(code, addr, m1, mod, count - 1))

LoopNode(code, addr, m, mod) == LoopFor(code, addr, m, mod, Attr(code))

\* The first part of AtLeastNode leaving its loop at the first failure.
RECURSIVE AtLeastFor_until_failure(_, _, _, _, _)
AtLeastFor_until_failure(code, addr, m, mod, count) ==
  IF count <= 0 \/ ~m.ok
  THEN m
  ELSE Bind(T(code, addr, 0, m, mod),
            LAMBDA m1 :
              IF ~m1.r
              THEN m1
              ELSE AtLeastFor_until_failure(code, addr, m1, mod, count - 1))

\* AtLeastNode, first part: for <v> in xrange(<t0>): <t1>
RECURSIVE AtLeastFor(_, _, _, _, _)
AtLeastFor(code, addr, m, mod, count) ==
  IF count <= 0 \/ ~m.ok
  THEN m
  ELSE Bind(T(code, addr, 0, m, mod),
            LAMBDA m1 : AtLeastFor(code, addr, m1, mod, count - 1))

\* AtLeastNode, second part: while True: <v> = s.cursor; <t1>; if not r:
\* s.cursor = <v>; break -- and after the loop r = True
RECURSIVE AtLeastWhile(_, _, _, _, _)
AtLeastWhile(code, addr, m, mod, fuel) ==
  IF fuel = 0 \/ ~m.ok
  THEN Raise(m)
  ELSE LET v == m.cursor
       IN Bind(T(code, addr, 0, m, mod),
               LAMBDA m1 :
                 IF ~m1.r
                 THEN [m1 EXCEPT !.cursor = v, !.r = TRUE]
                 ELSE AtLeastWhile(code, addr, m1, mod, fuel - 1))

AtLeastNode(code, addr, m, mod) ==
  Bind(AtLeastFor(code, addr, m, mod, Attr(code)),
       LAMBDA m1 : AtLeastWhile(code, addr, m1, mod, MaxIter))

\* BackwardsNode's template without `s.cursor = <v0>` at its end.
BackwardsNode_without_restore(code, addr, m, mod) ==
  LET v1 == Len(m.chars) - m.limit
  IN Bind(T(code, addr, 0,
            [m EXCEPT !.direction = m.direction * (-1),
                      !.cursor = m.limit, !.limit = m.cursor], mod),
          LAMBDA m2 : [m2 EXCEPT !.direction = m2.direction * (-1),
                                 !.cursor = m2.limit,
                                 !.limit = Len(m2.chars) - v1])

BackwardsNode(code, addr, m, mod) ==
  LET v0 == m.cursor
      v1 == Len(m.chars) - m.limit
  IN Bind(T(code, addr, 0,
            [m EXCEPT !.direction = m.direction * (-1),
                      !.cursor = m.limit, !.limit = m.cursor], mod),
          LAMBDA m2 : [m2 EXCEPT !.direction = m2.direction * (-1),
                                 !.cursor = v0, !.limit = Len(m2.chars) - v1])

SetLimitNode(code, addr, m, mod) ==
  LET v0 == m.cursor
      v1 == Len(m.chars) - m.limit
  IN Bind(T(code, addr, 0, m, mod),
          LAMBDA m1 :
            IF m1.r
            THEN Bind(T(code, addr, 1,
                        [m1 EXCEPT !.limit = m1.cursor, !.cursor = v0], mod),
                      LAMBDA m2 : [m2 EXCEPT !.limit = Len(m2.chars) - v1])
            ELSE m1)

\* _make_if_chain over the children of a ConcatenationNode: the first block,
\* then each further block under `if r:`.
RECURSIVE IfChain(_, _, _, _, _)
IfChain(code, addr, n, m, mod) ==
  IF n >= Len(Children(code))
  THEN m
  ELSE IF n = 0 \/ m.r
       THEN Bind(T(code, addr, n, m, mod),
                 LAMBDA m1 : IfChain(code, addr, n + 1, m1, mod))
       ELSE m

ConcatenationNode(code, addr, m, mod) == IfChain(code, addr, 0, m, mod)

\* _IfChainNode.generate_code: <v> = s.cursor; <t0>; then for every further
\* child, nested: if [not ]r: s.cursor = <v>; <tn>
RECURSIVE IfChainNodeTail(_, _, _, _, _, _)
IfChainNodeTail(code, addr, n, m, mod, v) ==
  IF n >= Len(Children(code))
  THEN m
  ELSE IF (IF Class(code) = "OrNode" THEN ~m.r ELSE m.r)
       THEN Bind(T(code, addr, n, [m EXCEPT !.cursor = v], mod),
                 LAMBDA m1 : IfChainNodeTail(code, addr, n + 1, m1, mod, v))
       ELSE m

\* _IfChainNode's template without `s.cursor = <v>` in front of the later
\* children.
RECURSIVE IfChainNodeTail_without_restore(_, _, _, _, _, _)
IfChainNodeTail_without_restore(code, addr, n, m, mod, v) ==
  IF n >= Len(Children(code))
  THEN m
  ELSE IF (IF Class(code) = "OrNode" THEN ~m.r ELSE m.r)
       THEN Bind(T(code, addr, n, m, mod),
                 LAMBDA m1 : IfChainNodeTail_without_restore(code, addr, n + 1, m1, mod, v))
       ELSE m

IfChainNode_without_restore(code, addr, m, mod) ==
  LET v == m.cursor
  IN Bind(T(code, addr, 0, m, mod),
          LAMBDA m1 : IfChainNodeTail_without_restore(code, addr, 1, m1, mod, v))

IfChainNode(code, addr, m, mod) ==
  LET v == m.cursor
  IN Bind(T(code, addr, 0, m, mod),
          LAMBDA m1 : IfChainNodeTail(code, addr, 1, m1, mod, v))

\* r_<name>(self, s): r = True; <body>; return r.  The callee has its own
\* locals; the caller keeps its among selectors and takes the returned r.
RoutineCall(name, addr, m, mod) ==
  LET defs == {d \in mod.class_code : d[1] = name}
  IN IF defs = {}
     THEN Raise(m)
     ELSE LET body == (CHOOSE d \in defs : TRUE)[2]
              a == m.a
          IN Bind(Exec(body, addr \o <<0>>, [m EXCEPT !.r = TRUE, !.a = {}], mod),
                  LAMBDA m1 : [m1 EXCEPT !.a = a])

RoutineCallNode(code, addr, m, mod) == RoutineCall(Attr(code), addr, m, mod)

\* The table `_a_<index>` of the emitted module: the last assignment wins.
HasTable(mod, index) ==
  \E i \in 1..Len(mod.module_code) : mod.module_code[i][1] = index

Table(mod, index) ==
  LET i == CHOOSE j \in 1..Len(mod.module_code) :
             /\ mod.module_code[j][1] = index
             /\ \A k \in (j + 1)..Len(mod.module_code) : mod.module_code[k][1] # index
  IN mod.module_code[i][2]

SetSelector(m, index, value) ==
  [m EXCEPT !.a = {p \in m.a : p[1] # index} \cup {<<index, value>>}]

\* None, the value a_<index> has before an entry is selected.
None == -1

\* The loop `for <v1>, <v2>, <v3> in _a_<index>` of _generate_substring_code
RECURSIVE SubstringWalk(_, _, _, _, _, _)
SubstringWalk(table, i, index, addr, m, mod) ==
  IF i > Len(table) \/ ~m.ok
  THEN m
  ELSE LET v1 == table[i][1]
           v2 == table[i][2]
           v3 == table[i][3]
       IN Bind(starts_with(m, v1),
               LAMBDA m1 :
                 Bind(IF m1.r /\ v2 # "" THEN RoutineCall(v2, addr, m1, mod) ELSE m1,
                      LAMBDA m2 :
                        IF m2.r
                        THEN [SetSelector(m2, index, v3) EXCEPT !.r = TRUE]
                        ELSE SubstringWalk(table, i + 1, index, addr,
                                           [m2 EXCEPT !.r = FALSE], mod)))

\* _generate_substring_code
generate_substring_code(index, addr, m, mod) ==
  IF ~HasTable(mod, index)
  THEN Raise(m)
  ELSE Bind(SubstringWalk(Table(mod, index), 1, index, addr,
                          [SetSelector(m, index, None) EXCEPT !.r = FALSE], mod),
            LAMBDA m1 : LogEv(m1, "match", addr))

SubstringNode(code, addr, m, mod) ==
  generate_substring_code(Attr(code), addr, m, mod)

\* AmongNode.generate_if_chain: one `if a_<index> == <n>:` after the other
RECURSIVE AmongIfChain(_, _, _, _, _)
AmongIfChain(code, addr, n, m, mod) ==
  IF n >= Len(Attr(code).commands) \/ ~m.ok
  THEN m
  ELSE LET sel == {p \in m.a : p[1] = Attr(code).among_index}
       IN IF sel = {}
          THEN Raise(m)
          ELSE IF (CHOOSE p \in sel : TRUE)[2] # n
               THEN AmongIfChain(code, addr, n + 1, m, mod)
               ELSE LET command == Attr(code).commands[n + 1]
                        m0 == LogEv(m, "arm", addr \o <<-(n + 1)>>)
                    IN Bind(IF command = <<>>
                            THEN [m0 EXCEPT !.r = TRUE]
                            ELSE Exec(command[1], addr \o <<-(n + 1)>>, m0, mod),
                            LAMBDA m1 : AmongIfChain(code, addr, n + 1, m1, mod))

\* AmongNode.generate_code: the blocks (substring step, common_cmd, if chain)
\* joined by _make_if_chain.
AmongNode(code, addr, m, mod) ==
  LET a == Attr(code)
      first == ~a.substring
      only == first /\ a.common_cmd = <<>>
  IN Bind(IF a.substring
          THEN generate_substring_code(a.among_index, addr, m, mod)
          ELSE m,
          LAMBDA m1 :
            Bind(IF a.common_cmd # <<>> /\ m1.ok /\ (first \/ m1.r)
                 THEN Exec(a.common_cmd[1], addr \o <<0>>, m1, mod)
                 ELSE m1,
                 LAMBDA m2 :
                   IF m2.ok /\ (only \/ m2.r)
                   THEN AmongIfChain(code, addr, 0, m2, mod)
                   ELSE m2))

\* seq[i] of Python: <<x>>, or <<>> when it raises IndexError.
PyItem(seq, i) ==
  LET n == Len(seq)
      j == IF i < 0 THEN i + n ELSE i
  IN IF j < 0 \/ j >= n THEN <<>> ELSE <<seq[j + 1]>>

\* GroupingNode (non = FALSE) and NonNode (non = TRUE), whose <t0> has the
\* value set.
GroupingCheck(m, set, template, non) ==
  IF m.cursor = m.limit
  THEN [m EXCEPT !.r = FALSE]
  ELSE LET c == PyItem(m.chars, IF template = "code" THEN m.cursor ELSE m.cursor - 1)
       IN IF c = <<>>
          THEN Raise(m)
          ELSE IF (c[1] \in set) # non
               THEN [m EXCEPT !.r = TRUE,
                              !.cursor = IF template = "code"
                                         THEN m.cursor + 1 ELSE m.cursor - 1]
               ELSE [m EXCEPT !.r = FALSE]

\* The anchors and set_range: `stop - start` raises on None.
SetRangeNode(m, chars) ==
  IF m.left = <<>> \/ m.right = <<>>
  THEN Raise(m)
  ELSE set_range(m, m.left[1], m.right[1], chars)

\* The templates that call the string machine or set a field.
LeafNode(code, m) ==
  LET class == Class(code)
  IN CASE class = "StartsWithNode" -> starts_with(m, Attr(code))
       [] class = "HopNode" -> hop(m, Attr(code))
       [] class = "NextNode" -> hop(m, 1)
       [] class = "InsertNode" -> insert(m, Attr(code))
       [] class = "AttachNode" -> attach(m, Attr(code))
       [] class = "ReplaceSliceNode" -> SetRangeNode(m, Attr(code))
       [] class = "DeleteNode" -> SetRangeNode(m, <<>>)
       [] class = "SetLeftNode" -> [m EXCEPT !.left = <<m.cursor>>, !.r = TRUE]
       [] class = "SetRightNode" -> [m EXCEPT !.right = <<m.cursor>>, !.r = TRUE]
       [] class = "ToMarkNode" -> to_mark(m, Attr(code))
       [] class = "AtMarkNode" -> [m EXCEPT !.r = (m.cursor = Attr(code))]
       [] class = "AtLimitNode" -> [m EXCEPT !.r = (m.cursor = m.limit)]
       [] class = "ToLimitNode" -> [m EXCEPT !.cursor = m.limit, !.r = TRUE]
       [] class = "TrueCommandNode" -> [m EXCEPT !.r = TRUE]
       [] class = "FalseCommandNode" -> [m EXCEPT !.r = FALSE]
       [] class = "EmptyCommandNode" -> m
       [] class = "GroupingNode" -> GroupingCheck(m, Attr(code), Template(code), FALSE)
       [] class = "NonNode" -> GroupingCheck(m, Attr(code), Template(code), TRUE)

Run(code, addr, m, mod) ==
  LET class == Class(code)
  IN CASE class = "NotNode" -> NotNode(code, addr, m, mod)
       [] class = "TestNode" -> TestNode(code, addr, m, mod)
       [] class = "TryNode" -> TryNode(code, addr, m, mod)
       [] class = "DoNode" -> DoNode(code, addr, m, mod)
       [] class = "FailNode" -> FailNode(code, addr, m, mod)
       [] class = "GoToNode" -> GoToNode(code, addr, m, mod)
       [] class = "GoPastNode" -> GoPastNode(code, addr, m, mod)
       [] class = "RepeatNode" -> RepeatNode(code, addr, m, mod)
       [] class = "LoopNode" -> LoopNode(code, addr, m, mod)
       [] class = "AtLeastNode" -> AtLeastNode(code, addr, m, mod)
       [] class = "BackwardsNode" -> BackwardsNode(code, addr, m, mod)
       [] class = "SetLimitNode" -> SetLimitNode(code, addr, m, mod)
       [] class = "ConcatenationNode" -> ConcatenationNode(code, addr, m, mod)
       [] class \in {"AndNode", "OrNode"} -> IfChainNode(code, addr, m, mod)
       [] class = "RoutineCallNode" -> RoutineCallNode(code, addr, m, mod)
       [] class = "SubstringNode" -> SubstringNode(code, addr, m, mod)
       [] class = "AmongNode" -> AmongNode(code, addr, m, mod)
       [] OTHER -> LeafNode(code, m)

Exec(code, addr, m, mod) ==
  IF ~m.ok
  THEN m
  ELSE Bind(Run(code, addr, LogNode(m, "in", addr, code), mod),
            LAMBDA m1 : IF m1.ok THEN LogNode(m1, "out", addr, code) ELSE m1)

\* ------------------------------------------------------------------------
\* Parse actions that build nodes (grammar.py)
\* ------------------------------------------------------------------------

\* The strings in the order they were written: what the table would be if
\* cmd_among_action did not sort.
AsWritten(strings) == strings

\* A sort by decreasing length that puts an entry in front of the entries
\* of its length that came before it.
RECURSIVE SortTurningTies(_)
SortTurningTies(strings) ==
  IF strings = <<>>
  THEN <<>>
  ELSE LET rest == SortTurningTies(SubSeq(strings, 1, Len(strings) - 1))
           x == strings[Len(strings)]
           k == Cardinality({i \in 1..Len(rest) : Len(rest[i][1]) > Len(x[1])})
       IN SubSeq(rest, 1, k) \o <<x>> \o SubSeq(rest, k + 1, Len(rest))

\* list.sort(cmp=lambda x, y: len(y[0]) - len(x[0])): a stable sort by
\* decreasing length of the first component.
RECURSIVE SortByDecreasingLength(_)
SortByDecreasingLength(strings) ==
  IF strings = <<>>
  THEN <<>>
  ELSE LET rest == SortByDecreasingLength(Front(strings))
           x == Last(strings)
           \* x goes behind every entry that is at least as long
           k == Cardinality({i \in 1..Len(rest) : Len(rest[i][1]) >= Len(x[1])})
       IN SubSeq(rest, 1, k) \o <<x>> \o SubSeq(rest, k + 1, Len(rest))

\* The strings of one argument of among, each with its routine and the
\* index of the argument.
ArgStrings(arg, index) ==
  [j \in 1..Len(arg.strs) |-> <<arg.strs[j][1], arg.strs[j][2], index>>]

RECURSIVE AllStrings(_, _)
AllStrings(args, n) ==
  IF n = 0 THEN <<>>
  ELSE AllStrings(args, n - 1) \o ArgStrings(args[n], n - 1)

\* cmd_among_action.  args is the list of arguments of among, each with its
\* strings strs (pairs <<string, routine name or "">>) and its command cmd
\* (<<>> when the argument has none).
cmd_among_action(common_cmd, args) ==
  <<"AmongNode",
    [strings |-> SortByDecreasingLength(AllStrings(args, Len(args))),
     commands |-> [i \in 1..Len(args) |-> args[i].cmd],
     common_cmd |-> common_cmd],
    <<>>>>

\* make_binary_op_list_action(['and', 'or'], [AndNode, OrNode]): tokens is
\* operand, operator, operand, ...; the result nests to the left.
RECURSIVE BinaryOpList(_, _, _)
BinaryOpList(left, tokens, i) ==
  IF i > Len(tokens)
  THEN left
  ELSE LET cls == IF tokens[i] = "and" THEN "AndNode" ELSE "OrNode"
       IN BinaryOpList(<<cls, <<>>, <<left, tokens[i + 1]>>>>, tokens, i + 2)

make_binary_op_list_action(tokens) == BinaryOpList(tokens[1], tokens, 2)

\* A variant of grouping_def_action that nests to the right.
RECURSIVE GroupingOpListRight(_, _)
GroupingOpListRight(tokens, i) ==
  IF i = Len(tokens)
  THEN tokens[i]
  ELSE <<(IF tokens[i + 1] = "+" THEN "SetUnionNode" ELSE "SetDifferenceNode"),
         <<>>, <<tokens[i], GroupingOpListRight(tokens, i + 2)>>>>

grouping_def_action_nesting_right(tokens) ==
  IF Len(tokens) = 1
  THEN <<"GroupingDefinitionNode", Attr(tokens[1]), <<>>>>
  ELSE <<"GroupingDefinitionNode", Attr(tokens[1]), <<GroupingOpListRight(tokens, 2)>>>>

\* The loop of grouping_def_action: `while tokens: child = ...; left = child`
RECURSIVE GroupingOpList(_, _, _)
GroupingOpList(left, tokens, i) ==
  IF i > Len(tokens)
  THEN left
  ELSE LET cls == IF tokens[i] = "+" THEN "SetUnionNode" ELSE "SetDifferenceNode"
       IN GroupingOpList(<<cls, <<>>, <<left, tokens[i + 1]>>>>, tokens, i + 2)

\* grouping_def_action.  tokens is the reference to the grouping, then atom,
\* operator, atom, ...
grouping_def_action(tokens) ==
  IF Len(tokens) = 1
  THEN <<"GroupingDefinitionNode", Attr(tokens[1]), <<>>>>
  ELSE IF Len(tokens) = 2
       THEN <<"GroupingDefinitionNode", Attr(tokens[1]), <<tokens[2]>>>>
       ELSE <<"GroupingDefinitionNode", Attr(tokens[1]),
              <<GroupingOpList(tokens[2], tokens, 3)>>>>

\* The set of characters of a string: set(chars)
CharSet(s) == {s[i] : i \in 1..Len(s)}

\* The value of the expression emitted for a grouping: `set(<chars>)` by
\* CharSetNode, `_g_<name>` by GroupingReferenceNode, `(<t0> | <t1>)` by
\* SetUnionNode and `(<t0> - <t1>)` by SetDifferenceNode.  globals maps the
\* names of the groupings defined so far to their sets.
RECURSIVE SetExpr(_, _)
SetExpr(n, globals) ==
  CASE Class(n) = "CharSetNode" -> CharSet(Attr(n))
    [] Class(n) = "GroupingReferenceNode" -> globals[Attr(n)]
    [] Class(n) = "SetUnionNode" ->
         SetExpr(Children(n)[1], globals) \cup SetExpr(Children(n)[2], globals)
    [] Class(n) = "SetDifferenceNode" ->
         SetExpr(Children(n)[1], globals) \ SetExpr(Children(n)[2], globals)

\* GroupingDefinitionNode.generate_code and the run of the line
\* `_g_<name> = <expression>` it adds to the module.
GroupingDefinitionNode(n, globals) ==
  [x \in DOMAIN globals \cup {Attr(n)} |->
     IF x = Attr(n) THEN SetExpr(Children(n)[1], globals) ELSE globals[x]]

\* ------------------------------------------------------------------------
\* The parser state and the terminals that read it (grammar.py).  Text is a
\* sequence of characters; positions count from 0 as in Python.
\* ------------------------------------------------------------------------

\* The printable characters and the blank, in the order of their codes
\* 32..126 (the characters of codes 92 and 96 are written out).
Ascii ==
  <<" ", "!", "\"", "#", "$", "%", "&", "'", "(", ")", "*", "+", ",", "-",
    ".", "/", "0", "1", "2", "3", "4", "5", "6", "7", "8", "9", ":", ";",
    "<", "=", ">", "?", "@", "A", "B", "C", "D", "E", "F", "G", "H", "I",
    "J", "K", "L", "M", "N", "O", "P", "Q", "R", "S", "T", "U", "V", "W",
    "X", "Y", "Z", "[", "backslash", "]", "^", "_", "backquote", "a", "b", "c", "d", "e",
    "f", "g", "h", "i", "j", "k", "l", "m", "n", "o", "p", "q", "r", "s",
    "t", "u", "v", "w", "x", "y", "z", "{", "|", "}", "~">>

ord(c) == CHOOSE n \in 32..126 : Ascii[n - 31] = c

\* unichr(n); the characters outside the table are not told apart.
unichr(n) == IF n \in 32..126 THEN Ascii[n - 31] ELSE "unprintable"

\* pyparsing's alphanums
alphanums ==
  {Ascii[n - 31] : n \in (48..57) \cup (65..90) \cup (97..122)}

\* reference_chars = set(alphanums + '_')
reference_chars == alphanums \cup {"_"}

\* str.index(c, pos) and str.find: the first position from pos on that
\* holds c; -1 where index raises ValueError.
index(instring, c, pos) ==
  LET hits == {i \in pos..(Len(instring) - 1) : instring[i + 1] = c}
  IN IF hits = {} THEN -1 ELSE CHOOSE i \in hits : \A j \in hits : i <= j

\* str.rfind(c, lo, hi): the last position in lo..hi-1 that holds c, or -1.
rfind(instring, c, lo, hi) ==
  LET hits == {i \in lo..(hi - 1) : instring[i + 1] = c}
  IN IF hits = {} THEN -1 ELSE CHOOSE i \in hits : \A j \in hits : i >= j

\* str.startswith(prefix, loc)
startswith(instring, prefix, loc) ==
  /\ loc <= Len(instring)
  /\ PySlice(instring, loc, loc + Len(prefix)) = prefix

\* re.sub(re.escape(p), v, s) for a replacement v without backslashes: the
\* occurrences of p in s, found from the left without overlap, become v.
RECURSIVE re_sub(_, _, _)
re_sub(p, v, s) ==
  IF Len(s) < Len(p) THEN s
  ELSE IF SubSeq(s, 1, Len(p)) = p
       THEN v \o re_sub(p, v, SubSeq(s, Len(p) + 1, Len(s)))
       ELSE <<s[1]>> \o re_sub(p, v, Tail(s))

\* str.split(): the words between blanks.
RECURSIVE split(_)
split(s) ==
  IF s = <<>> THEN <<>>
  ELSE IF s[1] = " " THEN split(Tail(s))
  ELSE LET stop == index(s, " ", 0)
           n == IF stop = -1 THEN Len(s) ELSE stop
       IN <<SubSeq(s, 1, n)>> \o split(SubSeq(s, n + 1, Len(s)))

\* The value of a digit in int(x, base); 99 for a character that is none.
DigitValue(c) ==
  LET n == ord(c)
  IN IF n \in 48..57 THEN n - 48
     ELSE IF n \in 97..102 THEN n - 87
     ELSE IF n \in 65..70 THEN n - 55
     ELSE 99

\* int(x, base) for a word x of digits; -1 where int raises ValueError.
RECURSIVE int(_, _)
int(x, base) ==
  IF x = <<>> THEN -1
  ELSE LET d == DigitValue(Last(x))
       IN IF d >= base THEN -1
          ELSE IF Len(x) = 1 THEN d
          ELSE LET high == int(Front(x), base)
               IN IF high = -1 THEN -1 ELSE high * base + d

\* state.strings = [] ... state.stringdefs = {}: the objects made when the
\* module is imported.
NewSession ==
  [strings |-> <<>>, integers |-> <<>>, externals |-> <<>>,
   booleans |-> <<>>, routines |-> <<>>, groupings |-> <<>>,
   stringescapes |-> <<>>, stringdefs |-> <<>>]

\* reset() that does not clear the dict.
reset_keeping_stringdefs(s) ==
  [s EXCEPT !.strings = <<>>, !.integers = <<>>, !.externals = <<>>,
            !.booleans = <<>>, !.routines = <<>>, !.groupings = <<>>,
            !.stringescapes = <<>>]

\* reset()
reset(s) ==
  [s EXCEPT !.strings = <<>>, !.integers = <<>>, !.externals = <<>>,
            !.booleans = <<>>, !.routines = <<>>, !.groupings = <<>>,
            !.stringescapes = <<>>, !.stringdefs = <<>>]

\* The lists a declaration extends: the targets given to make_decl.
Targets(kw) ==
  CASE kw = "strings" -> {"strings"}
    [] kw = "integers" -> {"integers"}
    [] kw = "booleans" -> {"booleans"}
    [] kw = "routines" -> {"routines"}
    [] kw = "externals" -> {"externals", "routines"}
    [] kw = "groupings" -> {"groupings"}

\* The parse action of make_decl: every target is extended by the names.
make_decl(s, kw, tokens) ==
  [f \in DOMAIN s |-> IF f \in Targets(kw) THEN s[f] \o tokens ELSE s[f]]

\* sorted(declarations, key=lambda x: len(x), reverse=True): stable, so
\* names of one length keep the order of their declaration.
RECURSIVE SortedByLength(_)
SortedByLength(declarations) ==
  IF declarations = <<>>
  THEN <<>>
  ELSE LET rest == SortedByLength(Front(declarations))
           x == Last(declarations)
           k == Cardinality({i \in 1..Len(rest) : Len(rest[i]) >= Len(x)})
       IN SubSeq(rest, 1, k) \o <<x>> \o SubSeq(rest, k + 1, Len(rest))

ParseException(msg) == [ok |-> FALSE, error |-> "ParseException", msg |-> msg]

Parsed(loc, tok) == [ok |-> TRUE, loc |-> loc, tok |-> tok]

\* The loop of Reference.parseImpl without the test of the character behind
\* the name.
RECURSIVE Reference_any_prefix(_, _, _, _)
Reference_any_prefix(candidates, i, instring, loc) ==
  IF i > Len(candidates)
  THEN ParseException(candidates)
  ELSE IF startswith(instring, candidates[i], loc)
       THEN Parsed(loc + Len(candidates[i]), candidates[i])
       ELSE Reference_any_prefix(candidates, i + 1, instring, loc)

\* The loop of Reference.parseImpl over the candidates from the i-th on.
RECURSIVE Reference_loop(_, _, _, _)
Reference_loop(candidates, i, instring, loc) ==
  IF i > Len(candidates)
  THEN ParseException(candidates)
  ELSE LET candidate == candidates[i]
           n == Len(candidate)
       IN IF /\ startswith(instring, candidate, loc)
             /\ \/ Len(instring) = loc + n
                \/ instring[loc + n + 1] \notin reference_chars
          THEN Parsed(loc + n, candidate)
          ELSE Reference_loop(candidates, i + 1, instring, loc)

\* Reference.parseImpl that takes the first candidate the text starts with.
Reference_parseImpl_any_prefix(declarations, instring, loc) ==
  Reference_any_prefix(SortedByLength(declarations), 1, instring, loc)

\* Reference.parseImpl
Reference_parseImpl(declarations, instring, loc) ==
  Reference_loop(SortedByLength(declarations), 1, instring, loc)

\* The loop of StringLiteral.parseImpl that looks for the closing quote
\* from pos on; -1 where it raises 'Runaway string literal.'
RECURSIVE ClosingQuote(_, _, _, _)
ClosingQuote(escape_chars, instring, loc, pos) ==
  LET candidate == index(instring, "'", pos)
  IN IF candidate = -1 THEN -1
     ELSE IF escape_chars = <<>> THEN candidate
     ELSE LET l == rfind(instring, escape_chars[1], loc, candidate)
              rr == rfind(instring, escape_chars[2], loc, candidate)
          IN IF rr >= l THEN candidate
             ELSE ClosingQuote(escape_chars, instring, loc, candidate + 1)

\* for k, v in self.replacements.iteritems(): s = re.sub(...), the items
\* taken in the order `items` of the dict.
RECURSIVE Replace(_, _, _, _)
Replace(escape_chars, replacements, items, s) ==
  IF items = <<>> THEN s
  ELSE Replace(escape_chars, replacements, Tail(items),
               re_sub(<<escape_chars[1]>> \o items[1] \o <<escape_chars[2]>>,
                      replacements[items[1]], s))

\* StringLiteral.parseImpl; items is the order in which the dict yields
\* its keys.
StringLiteral_parseImpl(escape_chars, replacements, items, instring, loc) ==
  IF PyItem(instring, loc) # <<"'">>
  THEN ParseException("Expected \"'\".")
  ELSE LET candidate == ClosingQuote(escape_chars, instring, loc, loc + 1)
       IN IF candidate = -1
          THEN ParseException("Runaway string literal.")
          ELSE LET s == PySlice(instring, loc + 1, candidate)
               IN Parsed(candidate + 1,
                         IF escape_chars # <<>>
                         THEN Replace(escape_chars, replacements, items, s)
                         ELSE s)

\* dict[key] = value
SetItem(dict, key, value) ==
  [k \in DOMAIN dict \cup {key} |-> IF k = key THEN value ELSE dict[k]]

\* The orders in which a dict can yield its keys.
ItemOrders(dict) ==
  {items \in [1..Cardinality(DOMAIN dict) -> DOMAIN dict] :
     \A i, j \in DOMAIN items : i # j => items[i] # items[j]}

\* stringescapes_cmd_action: tokens are the two characters CHAR CHAR.
stringescapes_cmd_action(s, tokens) ==
  [s EXCEPT !.stringescapes = <<tokens[1], tokens[2]>>,
            !.stringdefs = SetItem(SetItem(s.stringdefs, <<"'">>, <<"'">>),
                                   <<"[">>, <<"[">>)]

\* u''.join(unichr(int(x, base)) for x in value.split()), or the
\* ValueError of int.
RECURSIVE Join(_, _)
Join(words, base) ==
  IF words = <<>> THEN <<>>
  ELSE LET n == int(words[1], base)
           rest == Join(Tail(words), base)
       IN IF n = -1 \/ rest = <<"ValueError">>
          THEN <<"ValueError">>
          ELSE <<unichr(n)>> \o rest

\* stringdef_cmd_action: tokens are the key, the mode ("hex", "decimal" or
\* "" for none) and the string of the literal.
stringdef_cmd_action(s, tokens) ==
  LET key == tokens[1]
      mode == tokens[2]
      value == IF mode = "hex" THEN Join(split(tokens[3]), 16)
               ELSE IF mode = "decimal" THEN Join(split(tokens[3]), 10)
               ELSE tokens[3]
  IN [s EXCEPT !.stringdefs = SetItem(s.stringdefs, key, value)]

\* STRINGESCAPES_CMD = Suppress(STRINGESCAPES) + CHAR + CHAR on the text
\* behind the keyword: each CHAR is one printable character, blanks before
\* it are skipped.  Returns the two characters and what is left of the
\* text, or <<>> when there are not two characters.
Skip(text) ==
  IF \A i \in DOMAIN text : text[i] = " " THEN <<>>
  ELSE SubSeq(text, CHOOSE i \in DOMAIN text :
                      text[i] # " " /\ \A j \in 1..(i - 1) : text[j] = " ",
              Len(text))

STRINGESCAPES_CMD(text) ==
  LET first == Skip(text)
      second == IF first = <<>> THEN <<>> ELSE Skip(Tail(first))
  IN IF second = <<>> THEN <<>>
     ELSE <<first[1], second[1], Skip(Tail(second))>>

\* ------------------------------------------------------------------------
\* The specification: a routine whose body is one command is run on a
\* string machine.
\* ------------------------------------------------------------------------

VARIABLES
  chars,      \* s.chars
  cursor,     \* s.cursor
  limit,      \* s.limit
  direction,  \* s.direction
  r,          \* the local r of the routine
  left,       \* self.left
  right,      \* self.right
  pc,         \* "start" before the command has run, "done" after
  node,       \* the command that was run (an AST node; <<>> before)
  entry,      \* the machine when the command started
  log,        \* the trace of the run
  twin,       \* a second string machine, run beside the first (<<>>: none)
  session,    \* the lists and the dict that grammar.py creates when imported
  local,      \* the threads in which `state` has its attributes
  thread,     \* per thread: the translation it is running
  result,     \* what the last call of a terminal's parseImpl returned
  program     \* the _Program object of the last call of an external routine

vars == <<chars, cursor, limit, direction, r, left, right, pc, node, entry, log,
          twin, session, local, thread, result, program>>

\* The parser's side of the state.
grammar == <<session, local, thread, result>>

\* What a run of one command on one machine leaves alone.
aside == <<twin, grammar, program>>

RECURSIVE Strings(_)
Strings(n) ==
  IF n = 0 THEN {<<>>}
  ELSE Strings(n - 1) \cup
       {Append(w, x) : w \in {v \in Strings(n - 1) : Len(v) = n - 1}, x \in Alphabet}

\* The machines a command can meet: in forward mode any cursor and limit
\* with 0 <= cursor <= limit <= len (a hop moves the cursor, the body of
\* setlimit runs under a lowered limit); in backward mode, entered through
\* `backwards`, the mirrored condition.
StartMachines ==
  {[NewString(w) EXCEPT !.cursor = c, !.limit = l, !.direction = d] :
     w \in Strings(MaxLen), c \in 0..MaxLen, l \in 0..MaxLen, d \in {1, -1}}

WellFormed(m) ==
  IF m.direction = 1
  THEN 0 <= m.cursor /\ m.cursor <= m.limit /\ m.limit <= Len(m.chars)
  ELSE 0 <= m.limit /\ m.limit <= m.cursor /\ m.cursor <= Len(m.chars)

\* `import sbl2py.grammar` in thread t: the module's objects are made and
\* become attributes of `state`, a threading.local, in that thread.
Imported(t) ==
  /\ session = NewSession
  /\ local = {t}

Machine ==
  [NewString(chars) EXCEPT !.cursor = cursor, !.limit = limit,
                           !.direction = direction, !.r = r,
                           !.left = left, !.right = right]

Init ==
  /\ \E m \in {x \in StartMachines : WellFormed(x)} :
       /\ chars = m.chars
       /\ cursor = m.cursor
       /\ limit = m.limit
       /\ direction = m.direction
       /\ r = m.r
       /\ left = m.left
       /\ right = m.right
       /\ entry = m
  /\ pc = "start"
  /\ node = <<>>
  /\ log = <<>>
  /\ twin = <<>>
  /\ Imported("main")
  /\ thread = <<>>
  /\ result = <<>>
  /\ program = <<>>

\* Translate the command for the direction of the routine it stands in and
\* run the emitted code.  A translation or a run that raises, or a loop
\* that does not end, has no state after it.
RunCommand(ast) ==
  /\ \E g \in {Gen(ast, <<>>, Environment(direction))} :
       \E m \in {Exec(g.code, <<>>, Machine,
                      [module_code |-> g.env.module_code, class_code |-> {}])} :
         /\ ~g.env.error
         /\ m.ok
         /\ chars' = m.chars
         /\ cursor' = m.cursor
         /\ limit' = m.limit
         /\ direction' = m.direction
         /\ r' = m.r
         /\ left' = m.left
         /\ right' = m.right
         /\ log' = m.log
  /\ pc' = "done"
  /\ node' = ast
  /\ UNCHANGED <<entry, aside>>

\* The machine a command leaves when it is run on machine m.
RunOn(ast, m) ==
  Bind(Gen(ast, <<>>, Environment(m.direction)),
       LAMBDA g : Exec(g.code, <<>>, m,
                       [module_code |-> g.env.module_code, class_code |-> {}]))

\* The commands the combinators are applied to.
StartsWith(s) == Leaf("StartsWithNode", s)

Concat(cs) == <<"ConcatenationNode", <<>>, cs>>

Commands ==
  { StartsWith(<<"a">>),
    Leaf("NextNode", <<>>),
    Leaf("InsertNode", <<"b">>),
    Leaf("AttachNode", <<"a">>),
    Unary("NotNode", StartsWith(<<"b">>)),
    Concat(<<StartsWith(<<"a">>), StartsWith(<<"b">>)>>),
    Concat(<<Leaf("SetLeftNode", <<>>), Leaf("NextNode", <<>>),
             Leaf("SetRightNode", <<>>), Leaf("DeleteNode", <<>>)>>),
    Concat(<<Leaf("SetLeftNode", <<>>), StartsWith(<<"a">>),
             Leaf("SetRightNode", <<>>), Leaf("ReplaceSliceNode", <<"b", "b">>)>>) }

\* The alternatives of an or-chain.
Alternatives ==
  { StartsWith(<<"b">>),
    Leaf("NextNode", <<>>),
    Concat(<<StartsWith(<<"a">>), StartsWith(<<"a">>)>>) }

\* The token lists `C1 or C2` and `C1 or C2 or C3`.
OrChains ==
  {<<c1, "or", c2>> : c1 \in Alternatives, c2 \in Alternatives}
  \cup {<<c1, "or", c2, "or", c3>> :
          c1 \in Alternatives, c2 \in Alternatives, c3 \in Alternatives}

\* The largest count of loop and atleast.
MaxCount == 2

\* The longest literal of a character check.
MaxLiteral == 2

\* The arguments of an among: lists of strings without routines, with a
\* command or without.
NoRoutine(ss) == [i \in 1..Len(ss) |-> <<ss[i], "">>]

AmongStrings ==
  { <<<<"a">>>>,
    <<<<"b">>, <<"a", "b">>>>,
    <<<<"a">>, <<"a", "b", "a">>, <<"b", "a">>>>,
    <<<<>>, <<"b", "b">>>> }

AmongArgs ==
  {<<[strs |-> NoRoutine(s1), cmd |-> <<Leaf("InsertNode", <<"a">>)>>],
     [strs |-> NoRoutine(s2), cmd |-> <<>>]>> :
     s1 \in AmongStrings, s2 \in AmongStrings}

\* What may stand in front of an among: nothing, a substring, or a
\* substring and a command that cannot fail.
AmongForms(among) ==
  { among,
    Concat(<<Leaf("SubstringNode", <<>>), among>>),
    Concat(<<Leaf("SubstringNode", <<>>),
             Unary("TryNode", Leaf("NextNode", <<>>)), among>>) }

Try ==
  /\ pc = "start"
  /\ \E c \in Commands : RunCommand(Unary("TryNode", c))

Test ==
  /\ pc = "start"
  /\ \E c \in Commands : RunCommand(Unary("TestNode", c))

Do ==
  /\ pc = "start"
  /\ \E c \in Commands : RunCommand(Unary("DoNode", c))

Or ==
  /\ pc = "start"
  /\ \E tokens \in OrChains : RunCommand(make_binary_op_list_action(tokens))

GoTo ==
  /\ pc = "start"
  /\ \E c \in Commands : RunCommand(Unary("GoToNode", c))

GoPast ==
  /\ pc = "start"
  /\ \E c \in Commands : RunCommand(Unary("GoPastNode", c))

Repeat ==
  /\ pc = "start"
  /\ \E c \in Commands : RunCommand(Unary("RepeatNode", c))

AtLeast ==
  /\ pc = "start"
  /\ \E c \in Commands, n \in 0..MaxCount : RunCommand(<<"AtLeastNode", n, <<c>>>>)

CharacterCheck ==
  /\ pc = "start"
  /\ \E s \in Strings(MaxLiteral) : RunCommand(StartsWith(s))

Among ==
  /\ pc = "start"
  /\ \E args \in AmongArgs :
       \E ast \in AmongForms(cmd_among_action(<<>>, args)) : RunCommand(ast)

\* The largest argument of hop.
MaxHop == 4

Hop ==
  /\ pc = "start"
  /\ \E n \in (-2)..MaxHop : RunCommand(Leaf("HopNode", n))

Insert ==
  /\ pc = "start"
  /\ \E s \in Strings(MaxLiteral) : RunCommand(Leaf("InsertNode", s))

\* A call of one operation of the string machine: m is the machine after
\* the call, call names the operation and its arguments.
Call(m, call) ==
  /\ m.ok
  /\ chars' = m.chars
  /\ cursor' = m.cursor
  /\ limit' = m.limit
  /\ direction' = m.direction
  /\ r' = m.r
  /\ left' = m.left
  /\ right' = m.right
  /\ log' = m.log
  /\ pc' = "done"
  /\ node' = call
  /\ UNCHANGED <<entry, aside>>

\* s.set_range(start, stop, chars) with the anchors a routine can have set:
\* start before stop in the direction of the machine.
SetRange ==
  /\ pc = "start"
  /\ \E start \in 0..Len(chars), stop \in 0..Len(chars), s \in Strings(MaxLiteral) :
       /\ direction = 1 => start <= stop
       /\ direction = -1 => stop <= start
       /\ \E m \in {set_range(Machine, start, stop, s)} :
            Call(m, <<"set_range", [start |-> start, stop |-> stop, chars |-> s], <<>>>>)

\* The atoms of a grouping definition: string literals and the grouping x.
GroupingAtoms ==
  { Leaf("CharSetNode", <<"a">>), Leaf("CharSetNode", <<"b">>),
    Leaf("CharSetNode", <<"a", "b">>), Leaf("GroupingReferenceNode", "x") }

\* atom, operator, atom, ...: up to three atoms.
GroupingTokens ==
  {<<a1>> : a1 \in GroupingAtoms}
  \cup {<<a1, o1, a2>> : a1 \in GroupingAtoms, o1 \in {"+", "-"}, a2 \in GroupingAtoms}
  \cup {<<a1, o1, a2, o2, a3>> :
          a1 \in GroupingAtoms, o1 \in {"+", "-"}, a2 \in GroupingAtoms,
          o2 \in {"+", "-"}, a3 \in GroupingAtoms}

\* The program `define x 'a'  define g <tokens>  define check as g`.
GroupingDefinition ==
  /\ pc = "start"
  /\ \E tokens \in GroupingTokens :
       \E globals \in
            {GroupingDefinitionNode(
               grouping_def_action(<<Leaf("GroupingReferenceNode", "g")>> \o tokens),
               GroupingDefinitionNode(
                 grouping_def_action(<<Leaf("GroupingReferenceNode", "x"),
                                       Leaf("CharSetNode", <<"a">>)>>),
                 <<>>))} :
         \E m \in {RunOn(Leaf("GroupingNode", globals["g"]), Machine)} :
           Call(m, <<"define", tokens, <<>>>>)

Next ==
  \/ Try
  \/ Test
  \/ Do
  \/ Or
  \/ GoTo
  \/ GoPast
  \/ Repeat
  \/ AtLeast
  \/ CharacterCheck
  \/ Among
  \/ Hop
  \/ Insert
  \/ SetRange
  \/ GroupingDefinition

Spec == Init /\ [][Next]_vars

\* ------------------------------------------------------------------------
\* The specification of duality: a sequence of operations is applied to a
\* machine in backward mode, and operation by operation the mirrored
\* sequence to a forward machine on the reversed buffer, the twin.
\* log holds the names of the operations applied.
\* ------------------------------------------------------------------------

\* The longest sequence of operations.
MaxOps == 3

\* The longest buffer the operations may build.
MaxBuffer == 4

\* The sets of characters a grouping check is made with.
Groupings == {{"a"}, {"b"}, {"a", "b"}}

\* What `backwards` makes of a fresh machine: cursor = len, limit = 0.
BackwardString(w) ==
  [NewString(w) EXCEPT !.cursor = Len(w), !.limit = 0, !.direction = -1]

DualInit ==
  /\ \E w \in Strings(MaxLen) :
       /\ chars = w
       /\ cursor = Len(w)
       /\ limit = 0
       /\ entry = BackwardString(w)
       /\ twin = NewString(Reverse(w))
  /\ direction = -1
  /\ r = TRUE
  /\ left = <<>>
  /\ right = <<>>
  /\ pc = "dual"
  /\ node = <<>>
  /\ log = <<>>
  /\ Imported("main")
  /\ thread = <<>>
  /\ result = <<>>
  /\ program = <<>>

\* One operation: b is the backward machine and f the twin after it.
DualStep(b, f, name, call) ==
  /\ b.ok
  /\ f.ok
  /\ chars' = b.chars
  /\ cursor' = b.cursor
  /\ limit' = b.limit
  /\ r' = b.r
  /\ twin' = f
  /\ log' = Append(log, name)
  /\ node' = call
  /\ UNCHANGED <<direction, left, right, pc, entry, grammar, program>>

DualReady == pc = "dual" /\ Len(log) < MaxOps

DualStartsWith ==
  /\ DualReady
  /\ \E s \in Strings(MaxLiteral) :
       \E b \in {starts_with(Machine, s)}, f \in {starts_with(twin, Reverse(s))} :
         DualStep(b, f, "starts_with", <<"starts_with", s, <<>>>>)

DualHop ==
  /\ DualReady
  /\ \E n \in (-1)..MaxHop :
       \E b \in {hop(Machine, n)}, f \in {hop(twin, n)} :
         DualStep(b, f, "hop", <<"hop", n, <<>>>>)

DualGrouping ==
  /\ DualReady
  /\ \E g \in Groupings :
       \E b \in {GroupingCheck(Machine, g, "backwards_code", FALSE)},
          f \in {GroupingCheck(twin, g, "code", FALSE)} :
         DualStep(b, f, "grouping", <<"grouping", g, <<>>>>)

DualInsert ==
  /\ DualReady
  /\ \E s \in Strings(MaxLiteral) :
       /\ Len(chars) + Len(s) <= MaxBuffer
       /\ \E b \in {insert(Machine, s)}, f \in {insert(twin, Reverse(s))} :
            DualStep(b, f, "insert", <<"insert", s, <<>>>>)

DualAttach ==
  /\ DualReady
  /\ \E s \in Strings(MaxLiteral) :
       /\ Len(chars) + Len(s) <= MaxBuffer
       /\ \E b \in {attach(Machine, s)}, f \in {attach(twin, Reverse(s))} :
            DualStep(b, f, "attach", <<"attach", s, <<>>>>)

DualToMark ==
  /\ DualReady
  /\ \E mark \in 0..Len(chars) :
       \E b \in {to_mark(Machine, mark)},
          f \in {to_mark(twin, Len(twin.chars) - mark)} :
         DualStep(b, f, "to_mark", <<"to_mark", mark, <<>>>>)

DualSetRange ==
  /\ DualReady
  /\ \E start \in 0..Len(chars), stop \in 0..Len(chars), s \in Strings(MaxLiteral) :
       /\ stop <= start
       /\ Len(chars) + Len(s) <= MaxBuffer
       /\ \E b \in {set_range(Machine, start, stop, s)},
             f \in {set_range(twin, Len(twin.chars) - start,
                              Len(twin.chars) - stop, Reverse(s))} :
            DualStep(b, f, "set_range",
                     <<"set_range", [start |-> start, stop |-> stop, chars |-> s], <<>>>>)

DualNext ==
  \/ DualStartsWith
  \/ DualHop
  \/ DualGrouping
  \/ DualInsert
  \/ DualAttach
  \/ DualToMark
  \/ DualSetRange

SpecDual == DualInit /\ [][DualNext]_vars

\* ------------------------------------------------------------------------
\* The specification of the terminals: one thread parses program after
\* program; the directives of a program change the parser state and the
\* terminals read it.  A program is a number of directives and then one
\* use of a terminal; log holds the declarations of the current parse.
\* ------------------------------------------------------------------------

\* Names a program declares in all.
MaxNames == 2

\* Longest text a reference is looked for in.
MaxText == 3

\* Longest text behind the opening quote of a literal.
MaxQuoted == 3

RECURSIVE Texts(_, _)
Texts(alphabet, n) ==
  IF n = 0 THEN {<<>>}
  ELSE Texts(alphabet, n - 1) \cup
       {Append(w, x) : w \in {v \in Texts(alphabet, n - 1) : Len(v) = n - 1},
                       x \in alphabet}

Names == {<<"a">>, <<"a", "_">>}

NameLists == {<<x>> : x \in Names} \cup {<<x, y>> : x, y \in Names}

ReferenceTexts == Texts({"a", "_", " "}, MaxText)

EscapeTexts ==
  {<<"{", "}">>, <<"<", ">">>, <<"'", "<", ">", "'">>, <<"#", "#">>, <<"{">>}

DefKeys == {<<"A", "E">>, <<"b">>}

DefValues ==
  {<<"hex", <<"'", "4", "1", " ", "4", "5", "'">>>>,
   <<"decimal", <<"'", "6", "5", " ", "6", "9", "'">>>>,
   <<"hex", <<"'", "x", "'">>>>,
   <<"", <<"'", "x", "'">>>>,
   <<"", <<"'", "{", "b", "}", "'">>>>,
   <<"", <<"'", "x">>>>}

LiteralTexts ==
  {<<"'">> \o w : w \in Texts({"'", "{", "}", "b"}, MaxQuoted)}
    \cup {<<"'", "<", "A", "E", ">", "'">>, <<"'", "{", "A", "E", "}", "'">>,
          <<"'", "{", "b", "}", "'">>, <<"'", "{", "'", "}", "'">>,
          <<"'", "#", "'", "#", "'">>, <<"'", "#", "b", "#", "'">>}

\* The text and the position STR_LITERAL is tried at.
LiteralCalls ==
  {<<w, 0>> : w \in LiteralTexts}
    \cup {<<<<"b", "'", "b", "'">>, 0>>, <<<<"b", "'", "b", "'">>, 1>>,
          <<<<"'">>, 1>>}

GrammarInit ==
  /\ \E m \in {NewString(<<>>)} :
       /\ chars = m.chars
       /\ cursor = m.cursor
       /\ limit = m.limit
       /\ direction = m.direction
       /\ r = m.r
       /\ left = m.left
       /\ right = m.right
       /\ entry = m
  /\ pc = "parsing"
  /\ node = <<>>
  /\ log = <<>>
  /\ twin = <<>>
  /\ Imported("main")
  /\ thread = <<>>
  /\ result = <<>>
  /\ program = <<>>

machine ==
  <<chars, cursor, limit, direction, r, left, right, entry, twin, program>>

Declared(s) ==
  Len(s.strings) + Len(s.integers) + Len(s.booleans) + Len(s.routines)
    + Len(s.groupings)

\* parse_string: reset(), then PROGRAM.parseString(s) starts.
ParseString ==
  /\ session' = reset(session)
  /\ pc' = "parsing"
  /\ node' = <<"parse_string">>
  /\ log' = <<>>
  /\ result' = <<>>
  /\ UNCHANGED <<machine, local, thread>>

\* DECLARATION: `strings ( ... )` or `externals ( ... )`
Declaration ==
  /\ pc = "parsing"
  /\ result = <<>>
  /\ session.stringescapes = <<>>
  /\ session.stringdefs = <<>>
  /\ \E kw \in {"strings", "externals"}, tokens \in NameLists :
       /\ Declared(session) + Len(tokens) <= MaxNames
       /\ session' = make_decl(session, kw, tokens)
       /\ node' = <<"declaration", kw, tokens>>
       /\ log' = Append(log, <<"declaration", kw, tokens>>)
  /\ result' = <<>>
  /\ UNCHANGED <<machine, pc, local, thread>>

\* STR_REF or ROUTINE_REF is tried on the text at loc.
Reference ==
  /\ pc = "parsing"
  /\ result = <<>>
  /\ \E list \in {"strings", "routines"}, instring \in ReferenceTexts :
       \E loc \in 0..Len(instring) :
         /\ result' = Reference_parseImpl(session[list], instring, loc)
         /\ node' = <<"Reference", list, instring, loc>>
  /\ UNCHANGED <<machine, pc, log, session, local, thread>>

\* STRINGESCAPES_CMD on the text up to the next directive; text that is
\* left over is no directive, and the parse ends with a ParseException.
StringEscapes ==
  /\ pc = "parsing"
  /\ result = <<>>
  /\ Declared(session) = 0
  /\ \E text \in EscapeTexts :
       \E t \in {STRINGESCAPES_CMD(text)} :
         /\ session' = IF t = <<>> THEN session
                       ELSE stringescapes_cmd_action(session, t)
         /\ pc' = IF t # <<>> /\ t[3] = <<>> THEN "parsing" ELSE "failed"
         /\ node' = <<"stringescapes", text>>
  /\ result' = <<>>
  /\ UNCHANGED <<machine, log, local, thread>>

\* STRINGDEF_CMD: the key, the mode and a literal, which STR_LITERAL scans
\* before the parse action runs.
StringDef ==
  /\ pc = "parsing"
  /\ result = <<>>
  /\ Declared(session) = 0
  /\ \E key \in DefKeys, v \in DefValues :
       \E items \in ItemOrders(session.stringdefs) :
         \E lit \in {StringLiteral_parseImpl(session.stringescapes,
                                             session.stringdefs, items,
                                             v[2], 0)} :
           \E s \in {IF lit.ok /\ lit.loc = Len(v[2])
                     THEN stringdef_cmd_action(session, <<key, v[1], lit.tok>>)
                     ELSE session} :
             /\ session' = s
             /\ pc' = IF /\ lit.ok
                         /\ lit.loc = Len(v[2])
                         /\ s.stringdefs[key] # <<"ValueError">>
                      THEN "parsing" ELSE "failed"
             /\ node' = <<"stringdef", key, v[1], v[2]>>
  /\ result' = <<>>
  /\ UNCHANGED <<machine, log, local, thread>>

\* STR_LITERAL is tried on the text at loc.
Literal ==
  /\ pc = "parsing"
  /\ result = <<>>
  /\ \E items \in ItemOrders(session.stringdefs) :
       \E call \in LiteralCalls :
         /\ result' = StringLiteral_parseImpl(session.stringescapes,
                                              session.stringdefs, items,
                                              call[1], call[2])
         /\ node' = <<"StringLiteral", call[1], call[2]>>
  /\ UNCHANGED <<machine, pc, log, session, local, thread>>

GrammarNext ==
  \/ ParseString
  \/ Declaration
  \/ Reference
  \/ StringEscapes
  \/ StringDef
  \/ Literal

SpecGrammar == GrammarInit /\ [][GrammarNext]_vars

\* ------------------------------------------------------------------------
\* The specification of translations: every thread translates program
\* after program with translate_string, one program atom per step.  For
\* each thread, thread[t].prog holds the atoms parsed so far, thread[t].out
\* what the translation has produced and thread[t].error the exception
\* that ended it.
\* ------------------------------------------------------------------------

\* Longest program, in atoms.
MaxAtoms == 3

\* The atoms programs are made of: declarations, the two directives, uses
\* of the terminals inside a routine, and routines whose command takes a
\* fresh variable (try) or an among table (among).
SessionAtoms ==
  {<<"declaration", kw, <<<<"a">>>>>> :
     kw \in {"strings", "integers", "booleans", "routines", "externals",
             "groupings"}}
    \cup {<<"stringescapes", <<"{", "}">>>>,
          <<"stringdef", <<"b">>, "", <<"'", "x", "'">>>>,
          <<"StringLiteral", <<"'", "{", "b", "}", "'">>>>,
          <<"routine", "TryNode">>,
          <<"routine", "AmongNode">>}
    \cup {<<"Reference", list, <<"a">>>> :
            list \in {"strings", "integers", "booleans", "routines",
                      "groupings"}}

\* One atom is parsed in a thread where `state` has its attributes (has)
\* or has none, on the lists and the dict s: the state and the node after
\* it, or the exception.
ParseAtom(s, has, atom) ==
  CASE atom[1] = "declaration" ->
         [ok |-> TRUE, session |-> make_decl(s, atom[2], atom[3]),
          node |-> atom]
    [] atom[1] = "stringescapes" ->
         IF has
         THEN [ok |-> TRUE, session |-> stringescapes_cmd_action(s, atom[2]),
               node |-> <<>>]
         ELSE [ok |-> FALSE, session |-> s, error |-> "AttributeError"]
    [] atom[1] = "stringdef" ->
         LET lit == StringLiteral_parseImpl(
                      s.stringescapes, s.stringdefs,
                      CHOOSE items \in ItemOrders(s.stringdefs) : TRUE,
                      atom[4], 0)
         IN IF ~lit.ok
            THEN [ok |-> FALSE, session |-> s, error |-> lit.error]
            ELSE IF has
                 THEN [ok |-> TRUE,
                       session |-> stringdef_cmd_action(
                                     s, <<atom[2], atom[3], lit.tok>>),
                       node |-> <<>>]
                 ELSE [ok |-> FALSE, session |-> s,
                       error |-> "AttributeError"]
    [] atom[1] = "StringLiteral" ->
         LET lit == StringLiteral_parseImpl(
                      s.stringescapes, s.stringdefs,
                      CHOOSE items \in ItemOrders(s.stringdefs) : TRUE,
                      atom[2], 0)
         IN IF lit.ok
            THEN [ok |-> TRUE, session |-> s,
                  node |-> <<"StringLiteral", lit.tok>>]
            ELSE [ok |-> FALSE, session |-> s, error |-> lit.error]
    [] atom[1] = "Reference" ->
         LET ref == Reference_parseImpl(s[atom[2]], atom[3], 0)
         IN IF ref.ok
            THEN [ok |-> TRUE, session |-> s,
                  node |-> <<"Reference", atom[2], ref.tok>>]
            ELSE [ok |-> FALSE, session |-> s, error |-> ref.error]
    [] atom[1] = "routine" ->
         [ok |-> TRUE, session |-> s, node |-> atom]

\* Environment.transform_pseudo_code for a template with one <v>: the
\* name var%d, and the counter moves on.
transform_pseudo_code(env) ==
  [env |-> [env EXCEPT !.var_index = env.var_index + 1],
   name |-> <<"var", env.var_index>>]

\* ProgramNode.generate_code: the children generate their code in order;
\* the code of a try names its variable, that of an among its table.
RECURSIVE GenerateNodes(_, _, _)
GenerateNodes(nodes, env, codes) ==
  IF nodes = <<>> THEN codes
  ELSE IF nodes[1] = <<"routine", "TryNode">>
  THEN LET t == transform_pseudo_code(env)
       IN GenerateNodes(Tail(nodes), t.env, Append(codes, t.name))
  ELSE IF nodes[1] = <<"routine", "AmongNode">>
  THEN LET e == claim_among_index(env)
       IN GenerateNodes(Tail(nodes), e, Append(codes, <<"_a_", e.among_index>>))
  ELSE GenerateNodes(Tail(nodes), env, codes)

Idle == [pc |-> "idle", prog |-> <<>>, out |-> <<>>, error |-> ""]

SessionInit ==
  /\ \E m \in {NewString(<<>>)} :
       /\ chars = m.chars
       /\ cursor = m.cursor
       /\ limit = m.limit
       /\ direction = m.direction
       /\ r = m.r
       /\ left = m.left
       /\ right = m.right
       /\ entry = m
  /\ pc = "threads"
  /\ node = <<>>
  /\ log = <<>>
  /\ twin = <<>>
  /\ Imported("main")
  /\ thread = [t \in {"main"} |-> Idle]
  /\ result = <<>>
  /\ program = <<>>

\* Two threads; the module was imported by one of them or by the main
\* thread before they started.
ThreadsInit ==
  /\ \E m \in {NewString(<<>>)} :
       /\ chars = m.chars
       /\ cursor = m.cursor
       /\ limit = m.limit
       /\ direction = m.direction
       /\ r = m.r
       /\ left = m.left
       /\ right = m.right
       /\ entry = m
  /\ pc = "threads"
  /\ node = <<>>
  /\ log = <<>>
  /\ twin = <<>>
  /\ \E t \in {"main", "t1", "t2"} : Imported(t)
  /\ thread = [t \in {"t1", "t2"} |-> Idle]
  /\ result = <<>>
  /\ program = <<>>

\* translate_string calls parse_string, which calls reset(): the first
\* `state.strings` raises AttributeError in a thread where `state` has no
\* attributes.  node keeps the lists and the dict as the call found them.
TranslateString ==
  \E t \in DOMAIN thread :
    /\ thread[t].pc # "parsing"
    /\ IF t \in local
       THEN /\ session' = reset(session)
            /\ thread' = [thread EXCEPT ![t] =
                            [pc |-> "parsing", prog |-> <<>>, out |-> <<>>,
                             error |-> ""]]
       ELSE /\ session' = session
            /\ thread' = [thread EXCEPT ![t] =
                            [pc |-> "failed", prog |-> <<>>, out |-> <<>>,
                             error |-> "AttributeError"]]
    /\ node' = <<"translate_string", t, session>>
    /\ UNCHANGED <<machine, pc, log, local, result>>

\* PROGRAM parses the next atom; an exception ends the translation and
\* leaves the lists and the dict as they are.
ParseStep ==
  \E t \in DOMAIN thread :
    /\ thread[t].pc = "parsing"
    /\ Len(thread[t].prog) < MaxAtoms
    /\ \E atom \in SessionAtoms :
         \E p \in {ParseAtom(session, t \in local, atom)} :
           /\ session' = p.session
           /\ thread' = [thread EXCEPT ![t] =
                           IF p.ok
                           THEN [pc |-> "parsing",
                                 prog |-> Append(thread[t].prog, atom),
                                 out |-> Append(thread[t].out, p.node),
                                 error |-> ""]
                           ELSE [pc |-> "failed",
                                 prog |-> Append(thread[t].prog, atom),
                                 out |-> <<>>, error |-> p.error]]
           /\ node' = <<"parse", t, atom>>
    /\ UNCHANGED <<machine, pc, log, local, result>>

\* The input ends: parse_string returns the program node, and
\* translate_string makes an Environment and generates the code.
GenerateCode ==
  \E t \in DOMAIN thread :
    /\ thread[t].pc = "parsing"
    /\ thread' = [thread EXCEPT ![t] =
                    [pc |-> "done", prog |-> thread[t].prog,
                     out |-> thread[t].out \o
                             GenerateNodes(thread[t].out, Environment(1), <<>>),
                     error |-> ""]]
    /\ node' = <<"generate_code", t>>
    /\ UNCHANGED <<machine, pc, log, session, local, result>>

SessionNext ==
  \/ TranslateString
  \/ ParseStep
  \/ GenerateCode

SpecSession == SessionInit /\ [][SessionNext]_vars

SpecThreads == ThreadsInit /\ [][SessionNext]_vars

\* ------------------------------------------------------------------------
\* The specification of the program object: the module generated for
\*   integers (i) booleans (b) strings (x)
\*   externals (mark clear check count zero bracket export)
\* is called through its external routines, one call after the other.
\* entry is the _Program object as the call constructed it, program the
\* object after the routine has run, log the calls so far.
\* ------------------------------------------------------------------------

\* Calls in one run.
MaxCalls == 3

\* _InitDeclarationNode.generate_code: the line `self.<field> = <value>`
\* the declaration adds to env.init_code, as the field and the value.
InitDeclarationNode_generate_code(class, name) ==
  CASE class = "IntegerDeclarationNode" -> <<<<"i_", name>>, 0>>
    [] class = "StringDeclarationNode" -> <<<<"s_", name>>, NewString(<<>>)>>
    [] class = "BooleanDeclarationNode" -> <<<<"b_", name>>, TRUE>>

\* The declarations of the program.
Declarations ==
  <<<<"IntegerDeclarationNode", "i">>, <<"BooleanDeclarationNode", "b">>,
    <<"StringDeclarationNode", "x">>>>

\* env.init_code after ProgramNode.generate_code has generated the
\* declarations.
init_code ==
  [k \in 1..Len(Declarations) |->
     InitDeclarationNode_generate_code(Declarations[k][1], Declarations[k][2])]

\* _Program.__init__: left and right are None (here <<>>), then the lines
\* of init_code run.
Program_init ==
  [left |-> <<>>, right |-> <<>>,
   fields |-> [f \in {init_code[k][1] : k \in 1..Len(init_code)} |->
                 (CHOOSE line \in {init_code[k] : k \in 1..Len(init_code)} :
                    line[1] = f)[2]]]

\* The bodies of the external routines, each a sequence of commands.
Routines ==
  [mark |-> <<<<"SetNode", <<"b_", "b">>>>>>,
   clear |-> <<<<"UnsetNode", <<"b_", "b">>>>>>,
   check |-> <<<<"BooleanCommandNode", <<"b_", "b">>>>>>,
   count |-> <<<<"IntegerIncrementByNode", <<"i_", "i">>, 1>>>>,
   zero |-> <<<<"IntegerEqualNode", <<"i_", "i">>, 0>>>>,
   bracket |-> <<<<"NextNode">>, <<"SetLeftNode">>, <<"SetRightNode">>>>,
   export |-> <<<<"SetLeftNode">>, <<"NextNode">>, <<"SetRightNode">>,
               <<"ExportSliceNode", <<"s_", "x">>>>>>]

\* The code of one command, run on st = [self, s, r]: the program object,
\* the string machine of the call and the local r.
Command(cmd, st) ==
  CASE cmd[1] = "SetNode" ->
         [st EXCEPT !.self.fields[cmd[2]] = TRUE, !.r = TRUE]
    [] cmd[1] = "UnsetNode" ->
         [st EXCEPT !.self.fields[cmd[2]] = FALSE, !.r = TRUE]
    [] cmd[1] = "BooleanCommandNode" ->
         [st EXCEPT !.r = st.self.fields[cmd[2]]]
    [] cmd[1] = "IntegerIncrementByNode" ->
         [st EXCEPT !.self.fields[cmd[2]] = st.self.fields[cmd[2]] + cmd[3],
                    !.r = TRUE]
    [] cmd[1] = "IntegerEqualNode" ->
         [st EXCEPT !.r = st.self.fields[cmd[2]] = cmd[3]]
    [] cmd[1] = "SetLeftNode" ->
         [st EXCEPT !.self.left = <<st.s.cursor>>, !.r = TRUE]
    [] cmd[1] = "SetRightNode" ->
         [st EXCEPT !.self.right = <<st.s.cursor>>, !.r = TRUE]
    [] cmd[1] = "NextNode" ->
         LET m == hop(st.s, 1) IN [st EXCEPT !.s = m, !.r = m.r]
    [] cmd[1] = "ExportSliceNode" ->
         [st EXCEPT !.self.fields[cmd[2]] =
                      set_chars(st.self.fields[cmd[2]],
                                get_range(st.s, st.self.left[1],
                                          st.self.right[1])),
                    !.r = TRUE]

\* ConcatenationNode: the commands run in order as long as r is true.
RECURSIVE Commands_run(_, _)
Commands_run(cmds, st) ==
  IF cmds = <<>> THEN st
  ELSE LET st1 == Command(cmds[1], st)
       IN IF st1.r THEN Commands_run(Tail(cmds), st1) ELSE st1

\* The function an external declaration adds to the module (with debug):
\* p = _Program(); s = _String(s); p.r_<name>(s); return s, p -- and the
\* routine: r = True, the body, return r.
External(name, input) ==
  Commands_run(Routines[name],
               [self |-> Program_init, s |-> NewString(input), r |-> TRUE])

\* The strings the routines are called on.
Inputs == {<<>>, <<"a">>, <<"a", "b">>}

ProgramInit ==
  /\ \E m \in {NewString(<<>>)} :
       /\ chars = m.chars
       /\ cursor = m.cursor
       /\ limit = m.limit
       /\ direction = m.direction
       /\ r = m.r
       /\ left = m.left
       /\ right = m.right
  /\ entry = <<>>
  /\ pc = "module"
  /\ node = <<>>
  /\ log = <<>>
  /\ twin = <<>>
  /\ Imported("main")
  /\ thread = <<>>
  /\ result = <<>>
  /\ program = <<>>

\* One call of an external routine.
CallExternal ==
  /\ Len(log) < MaxCalls
  /\ \E name \in DOMAIN Routines, input \in Inputs :
       \E st \in {External(name, input)} :
         /\ entry' = Program_init
         /\ program' = st.self
         /\ result' = [r |-> st.r, s |-> st.s.chars]
         /\ node' = <<name, input>>
         /\ log' = Append(log, <<name, input>>)
  /\ pc' = "called"
  /\ UNCHANGED <<chars, cursor, limit, direction, r, left, right, twin,
                 session, local, thread>>

ProgramNext == CallExternal

SpecProgram == ProgramInit /\ [][ProgramNext]_vars

\* ------------------------------------------------------------------------
\* Amongs whose strings have guard routines: the program
\*   routines (yes no nx)
\*   define yes as true   define no as false   define nx as next
\*   define check as among(<string> [<routine>] ... )
\* with check run on a string machine, alone or behind `substring`.
\* ------------------------------------------------------------------------

\* RoutineDefinitionNode: the bodies of the routines.
GuardBodies ==
  [yes |-> Leaf("TrueCommandNode", <<>>),
   no |-> Leaf("FalseCommandNode", <<>>),
   nx |-> Leaf("NextNode", <<>>)]

\* env.class_code: each routine with the code of its body.
GuardRoutines ==
  {<<name, Gen(GuardBodies[name], <<>>, Environment(1)).code>> :
     name \in DOMAIN GuardBodies}

\* The strings of an argument of among, each with a routine or without.
GuardedStrings ==
  {<<s, g>> : s \in {<<"a">>, <<"b">>, <<"a", "b">>},
              g \in {""} \cup DOMAIN GuardBodies}

\* among(s1 [g1] ()  s2 [g2] ())
GuardedArgs ==
  {<<[strs |-> <<p1>>, cmd |-> <<>>], [strs |-> <<p2>>, cmd |-> <<>>]>> :
     p1 \in GuardedStrings, p2 \in GuardedStrings}

\* Translate a command that stands in a program with the routines
\* class_code and run the emitted code.
RunWith(ast, class_code) ==
  /\ \E g \in {Gen(ast, <<>>, Environment(direction))} :
       \E m \in {Exec(g.code, <<>>, Machine,
                      [module_code |-> g.env.module_code,
                       class_code |-> class_code])} :
         /\ ~g.env.error
         /\ m.ok
         /\ chars' = m.chars
         /\ cursor' = m.cursor
         /\ limit' = m.limit
         /\ direction' = m.direction
         /\ r' = m.r
         /\ left' = m.left
         /\ right' = m.right
         /\ log' = m.log
  /\ pc' = "done"
  /\ node' = ast
  /\ UNCHANGED <<entry, aside>>

GuardedAmong ==
  /\ pc = "start"
  /\ \E args \in GuardedArgs :
       RunWith(cmd_among_action(<<>>, args), GuardRoutines)

GuardedSubstring ==
  /\ pc = "start"
  /\ \E args \in GuardedArgs :
       RunWith(Concat(<<Leaf("SubstringNode", <<>>),
                        cmd_among_action(<<>>, args)>>), GuardRoutines)

GuardsNext ==
  \/ GuardedAmong
  \/ GuardedSubstring

SpecGuards == Init /\ [][GuardsNext]_vars

\* ------------------------------------------------------------------------
\* Sequences of commands: a routine's commands are run one after the other
\* on a machine that was freshly constructed (forward) or that `backwards`
\* has turned around (cursor = len, limit = 0).  log holds the commands run
\* so far, node the last one.
\* ------------------------------------------------------------------------

\* The commands that call the string machine without replacing a slice.
MachineCommands ==
  { StartsWith(<<"a">>),
    Leaf("NextNode", <<>>),
    Leaf("HopNode", 2),
    Leaf("GroupingNode", {"a"}),
    Leaf("NonNode", {"a"}),
    Leaf("ToLimitNode", <<>>),
    Leaf("InsertNode", <<"b">>),
    Leaf("AttachNode", <<"b">>) }
  \cup {Leaf("ToMarkNode", k) : k \in 0..MaxLen}

\* `[`, `]`, `<- 'bb'`, `<- ''` and delete.
SliceCommands ==
  { Leaf("SetLeftNode", <<>>),
    Leaf("SetRightNode", <<>>),
    Leaf("ReplaceSliceNode", <<"b", "b">>),
    Leaf("ReplaceSliceNode", <<>>),
    Leaf("DeleteNode", <<>>) }

\* Commands under test, try and do.
GuardedCommands ==
  {Unary(class, c) :
     class \in {"TestNode", "TryNode", "DoNode"},
     c \in { Leaf("NextNode", <<>>),
             Concat(<<Leaf("SetLeftNode", <<>>), Leaf("NextNode", <<>>),
                      Leaf("SetRightNode", <<>>)>>),
             Concat(<<Leaf("NextNode", <<>>), Leaf("SetLeftNode", <<>>),
                      Leaf("NextNode", <<>>), Leaf("SetRightNode", <<>>)>>) }}

SequenceInit ==
  /\ \E m \in {NewString(w) : w \in Strings(MaxLen)}
              \cup {BackwardString(w) : w \in Strings(MaxLen)} :
       /\ chars = m.chars
       /\ cursor = m.cursor
       /\ limit = m.limit
       /\ direction = m.direction
       /\ r = m.r
       /\ left = m.left
       /\ right = m.right
       /\ entry = m
  /\ pc = "routine"
  /\ node = <<>>
  /\ log = <<>>
  /\ twin = <<>>
  /\ Imported("main")
  /\ thread = <<>>
  /\ result = <<>>
  /\ program = <<>>

\* The next command of the routine is translated and its code run.
SequenceReady == pc = "routine" /\ Len(log) < MaxOps

SequenceStep(ast) ==
  /\ \E m \in {RunOn(ast, [Machine EXCEPT !.log = <<>>])} :
       /\ m.ok
       /\ Len(m.chars) <= MaxBuffer
       /\ chars' = m.chars
       /\ cursor' = m.cursor
       /\ limit' = m.limit
       /\ r' = m.r
       /\ left' = m.left
       /\ right' = m.right
  /\ log' = Append(log, Class(ast))
  /\ node' = ast
  /\ UNCHANGED <<direction, pc, entry, aside>>

MachineCommand ==
  /\ SequenceReady
  /\ \E ast \in MachineCommands : SequenceStep(ast)

SliceCommand ==
  /\ SequenceReady
  /\ \E ast \in SliceCommands : SequenceStep(ast)

GuardedCommand ==
  /\ SequenceReady
  /\ \E ast \in GuardedCommands : SequenceStep(ast)

SequenceNext ==
  \/ MachineCommand
  \/ SliceCommand
  \/ GuardedCommand

SpecSequence == SequenceInit /\ [][SequenceNext]_vars

\* ------------------------------------------------------------------------
\* The commands that change limit or direction for the time a command
\* runs, `setlimit A for (B)` and `backwards C`: one of them is run on a
\* string machine, as in Spec.
\* ------------------------------------------------------------------------

\* setlimit A for (B)
SetLimit ==
  /\ pc = "start"
  /\ \E a \in Commands, b \in Commands :
       RunCommand(<<"SetLimitNode", <<>>, <<a, b>>>>)

\* backwards C, C also a setlimit or another backwards
Backwards ==
  /\ pc = "start"
  /\ \E c \in Commands
            \cup {Unary("BackwardsNode", x) : x \in Commands}
            \cup {<<"SetLimitNode", <<>>, <<Leaf("NextNode", <<>>), x>>>> :
                    x \in Commands} :
       RunCommand(Unary("BackwardsNode", c))

FramesNext ==
  \/ SetLimit
  \/ Backwards

SpecFrames == Init /\ [][FramesNext]_vars

\* ------------------------------------------------------------------------
\* Programs with substrings and amongs: the body of a routine, a sequence
\* of commands, is translated and the emitted code run on a fresh machine.
\* node is the body, result what generate_code returned and made of the
\* environment, log the trace of the run; pc is "parsed", then "translated"
\* or, when generate_code raised, "failed", then "done" or, when the
\* emitted code raised, "raised".
\* ------------------------------------------------------------------------

\* The longest sequence of commands.
MaxNodes == 3

Substring == Leaf("SubstringNode", <<>>)

\* among('a' (insert 'b'))
AmongA ==
  cmd_among_action(<<>>, <<[strs |-> NoRoutine(<<<<"a">>>>),
                            cmd |-> <<Leaf("InsertNode", <<"b">>)>>]>>)

\* among('a' 'b' ())
AmongAB ==
  cmd_among_action(<<>>, <<[strs |-> NoRoutine(<<<<"a">>, <<"b">>>>),
                            cmd |-> <<>>]>>)

\* among('a' (substring among('a' 'b' ())))
AmongNested ==
  cmd_among_action(<<>>, <<[strs |-> NoRoutine(<<<<"a">>>>),
                            cmd |-> <<Concat(<<Substring, AmongAB>>)>>]>>)

\* among('b' (substring))
AmongOpen ==
  cmd_among_action(<<>>, <<[strs |-> NoRoutine(<<<<"b">>>>),
                            cmd |-> <<Substring>>]>>)

PairingCommands ==
  { Substring, AmongA, AmongAB, AmongNested, AmongOpen,
    Unary("TryNode", Leaf("NextNode", <<>>)),
    Unary("TryNode", Substring) }

RECURSIVE Sequences(_, _)
Sequences(items, n) ==
  IF n = 0 THEN {<<>>}
  ELSE Sequences(items, n - 1) \cup
       {Append(s, x) : s \in {t \in Sequences(items, n - 1) : Len(t) = n - 1},
                       x \in items}

PairingInit ==
  /\ \E w \in Strings(MaxLen) :
       \E m \in {NewString(w)} :
         /\ chars = m.chars
         /\ cursor = m.cursor
         /\ limit = m.limit
         /\ direction = m.direction
         /\ r = m.r
         /\ left = m.left
         /\ right = m.right
         /\ entry = m
  /\ \E cs \in Sequences(PairingCommands, MaxNodes) \ {<<>>} : node = Concat(cs)
  /\ pc = "parsed"
  /\ log = <<>>
  /\ twin = <<>>
  /\ Imported("main")
  /\ thread = <<>>
  /\ result = <<>>
  /\ program = <<>>

\* The body's generate_code.
Translate ==
  /\ pc = "parsed"
  /\ \E g \in {Gen(node, <<>>, Environment(direction))} :
       /\ result' = [code |-> IF g.env.error THEN <<>> ELSE g.code,
                     module_code |-> g.env.module_code,
                     among_index |-> g.env.among_index]
       /\ pc' = IF g.env.error THEN "failed" ELSE "translated"
  /\ UNCHANGED <<chars, cursor, limit, direction, r, left, right, node, entry,
                 log, twin, session, local, thread, program>>

\* The emitted routine is called.
Execute ==
  /\ pc = "translated"
  /\ \E m \in {Exec(result.code, <<>>, Machine,
                    [module_code |-> result.module_code, class_code |-> {}])} :
       /\ chars' = m.chars
       /\ cursor' = m.cursor
       /\ limit' = m.limit
       /\ r' = m.r
       /\ left' = m.left
       /\ right' = m.right
       /\ log' = m.log
       /\ pc' = IF m.ok THEN "done" ELSE "raised"
  /\ UNCHANGED <<direction, node, entry, twin, session, local, thread, result,
                 program>>

PairingNext ==
  \/ Translate
  \/ Execute

SpecPairing == PairingInit /\ [][PairingNext]_vars

\* ------------------------------------------------------------------------
\* The table of an among: the parser hands the arguments of an among to
\* cmd_among_action, and the node it returns emits its table into the
\* module.  entry holds the arguments in the order they were written, node
\* the AmongNode, result the table.
\* ------------------------------------------------------------------------

\* The most arguments of an among.
MaxArms == 3

\* The strings of one argument, each with its routine or without.
ArmStrings ==
  { <<<<<<"a">>, "">>>>,
    <<<<<<"b">>, "yes">>>>,
    <<<<<<"a", "b">>, "">>, <<<<"b">>, "no">>>>,
    <<<<<<"b">>, "">>, <<<<"a", "b">>, "yes">>, <<<<"a">>, "no">>>>,
    <<<<<<>>, "">>, <<<<"b", "a">>, "">>, <<<<"a", "b">>, "">>>>,
    <<<<<<"a">>, "">>, <<<<"a">>, "">>>> }

Arms ==
  {[strs |-> ss, cmd |-> c] :
     ss \in ArmStrings, c \in {<<>>, <<Leaf("TrueCommandNode", <<>>)>>}}

TableInit ==
  /\ \E m \in {NewString(<<>>)} :
       /\ chars = m.chars
       /\ cursor = m.cursor
       /\ limit = m.limit
       /\ direction = m.direction
       /\ r = m.r
       /\ left = m.left
       /\ right = m.right
  /\ \E args \in Sequences(Arms, MaxArms) \ {<<>>} : entry = args
  /\ pc = "tokens"
  /\ node = <<>>
  /\ log = <<>>
  /\ twin = <<>>
  /\ Imported("main")
  /\ thread = <<>>
  /\ result = <<>>
  /\ program = <<>>

\* The parse action of among.
ParseAmong ==
  /\ pc = "tokens"
  /\ node' = cmd_among_action(<<>>, entry)
  /\ pc' = "node"
  /\ UNCHANGED <<chars, cursor, limit, direction, r, left, right, entry, log,
                 aside>>

\* AmongNode.generate_code appends generate_var() to env.module_code.
GenerateVar ==
  /\ pc = "node"
  /\ \E g \in {Gen(node, <<>>, Environment(1))} :
       /\ ~g.env.error
       /\ result' = Table([module_code |-> g.env.module_code],
                          g.code[2].among_index)
  /\ pc' = "table"
  /\ UNCHANGED <<chars, cursor, limit, direction, r, left, right, node, entry,
                 log, twin, session, local, thread, program>>

TableNext ==
  \/ ParseAmong
  \/ GenerateVar

SpecTable == TableInit /\ [][TableNext]_vars

\* ------------------------------------------------------------------------
\* The loops goto, gopast and repeat, one pass of the emitted `while True`
\* at a time.  node is the loop, entry the machine it started on, and log
\* has one entry for every execution of the loop's command C: cursor and
\* limit before it (c0, l0) and after it (c1, l1) and its result r.  pc is
\* "loop" until the loop is left through `break`, then "done".
\* ------------------------------------------------------------------------

\* The commands the loops are made with, among them commands that change
\* the buffer and fail.
LoopCommands ==
  { StartsWith(<<"a">>),
    Leaf("NextNode", <<>>),
    Leaf("HopNode", 2),
    Leaf("TrueCommandNode", <<>>),
    Leaf("InsertNode", <<"b">>),
    Unary("NotNode", StartsWith(<<"b">>)),
    Concat(<<StartsWith(<<"a">>), StartsWith(<<"b">>)>>),
    Concat(<<Leaf("SetLeftNode", <<>>), Leaf("NextNode", <<>>),
             Leaf("SetRightNode", <<>>), Leaf("DeleteNode", <<>>)>>),
    Concat(<<Leaf("InsertNode", <<"b">>), Leaf("FalseCommandNode", <<>>)>>),
    Concat(<<Leaf("AttachNode", <<"b">>), Leaf("FalseCommandNode", <<>>)>>) }

LoopsInit ==
  /\ \E m \in {NewString(w) : w \in Strings(MaxLen)}
              \cup {BackwardString(w) : w \in Strings(MaxLen)} :
       /\ chars = m.chars
       /\ cursor = m.cursor
       /\ limit = m.limit
       /\ direction = m.direction
       /\ r = m.r
       /\ left = m.left
       /\ right = m.right
       /\ entry = m
  /\ \E class \in {"GoToNode", "GoPastNode", "RepeatNode"}, c \in LoopCommands :
       node = Unary(class, c)
  /\ pc = "loop"
  /\ log = <<>>
  /\ twin = <<>>
  /\ Imported("main")
  /\ thread = <<>>
  /\ result = <<>>
  /\ program = <<>>

\* What the lines behind <t0> make of the machine m1 that <t0> left, v
\* being the cursor saved before <t0>: the cursor, r, and whether the loop
\* is left.
AfterAttempt_without_step(code, v, m1) ==
  CASE Class(code) = "GoToNode" ->
         IF m1.r \/ m1.cursor = m1.limit
         THEN [cursor |-> v, r |-> m1.r, break |-> TRUE]
         ELSE [cursor |-> v, r |-> m1.r, break |-> FALSE]
    [] Class(code) = "GoPastNode" ->
         IF m1.r \/ m1.cursor = m1.limit
         THEN [cursor |-> m1.cursor, r |-> m1.r, break |-> TRUE]
         ELSE [cursor |-> m1.cursor, r |-> m1.r, break |-> FALSE]
    [] Class(code) = "RepeatNode" ->
         IF ~m1.r
         THEN [cursor |-> v, r |-> TRUE, break |-> TRUE]
         ELSE [cursor |-> m1.cursor, r |-> m1.r, break |-> FALSE]

AfterAttempt(code, v, m1) ==
  CASE Class(code) = "GoToNode" ->
         IF m1.r \/ m1.cursor = m1.limit
         THEN [cursor |-> v, r |-> m1.r, break |-> TRUE]
         ELSE [cursor |-> v + TemplateStep(code), r |-> m1.r, break |-> FALSE]
    [] Class(code) = "GoPastNode" ->
         IF m1.r \/ m1.cursor = m1.limit
         THEN [cursor |-> m1.cursor, r |-> m1.r, break |-> TRUE]
         ELSE [cursor |-> m1.cursor + TemplateStep(code), r |-> m1.r,
               break |-> FALSE]
    [] Class(code) = "RepeatNode" ->
         IF ~m1.r
         THEN [cursor |-> v, r |-> TRUE, break |-> TRUE]
         ELSE [cursor |-> m1.cursor, r |-> m1.r, break |-> FALSE]

\* The routine is in the loop; loops are followed for MaxIter passes.
InLoop == pc = "loop" /\ Len(log) < MaxIter

\* One pass of the loop of a node of the given class.
Pass(class) ==
  /\ Class(node) = class
  /\ \E g \in {Gen(node, <<>>, Environment(direction))} :
       \E m1 \in {T(g.code, <<>>, 0, [Machine EXCEPT !.log = <<>>],
                    [module_code |-> g.env.module_code, class_code |-> {}])} :
         \E next \in {AfterAttempt(g.code, cursor, m1)} :
           /\ m1.ok
           /\ chars' = m1.chars
           /\ limit' = m1.limit
           /\ left' = m1.left
           /\ right' = m1.right
           /\ cursor' = next.cursor
           /\ r' = next.r
           /\ pc' = IF next.break THEN "done" ELSE "loop"
           /\ log' = Append(log, [c0 |-> cursor, l0 |-> limit, c1 |-> m1.cursor,
                                  l1 |-> m1.limit, r |-> m1.r])
  /\ UNCHANGED <<direction, node, entry, aside>>

GoToPass ==
  /\ InLoop
  /\ Pass("GoToNode")

GoPastPass ==
  /\ InLoop
  /\ Pass("GoPastNode")

RepeatPass ==
  /\ InLoop
  /\ Pass("RepeatNode")

LoopsNext ==
  \/ GoToPass
  \/ GoPastPass
  \/ RepeatPass

\* A routine that is in a loop goes on running.
SpecLoops == LoopsInit /\ [][LoopsNext]_vars /\ WF_vars(LoopsNext)

\* ------------------------------------------------------------------------
\* Direction at generation and at run time: a whole program is generated,
\* and its external routine is called on a fresh string.  The program is
\*
\*   externals ( check )
\*   define check as <body>
\*   backwardmode ( define b as <body> )
\*   define f as <body>
\*
\* node holds the ProgramNode, result what the generation leaves (the
\* program's code, env.class_code and env.direction), log the trace of the
\* call.
\* ------------------------------------------------------------------------

RoutineCallTo(name) == Leaf("RoutineCallNode", name)

\* The commands whose template depends on env.direction.
DirectedCommands ==
  { Unary("GoToNode", StartsWith(<<"a">>)),
    Unary("GoPastNode", StartsWith(<<"b">>)),
    Unary("DoNode", Leaf("NextNode", <<>>)),
    Leaf("GroupingNode", {"a"}),
    Leaf("NonNode", {"a"}) }

\* Bodies of f, which calls no routine.
ForwardBodies ==
  DirectedCommands \cup
  { Unary("BackwardsNode", Unary("BackwardsNode", Leaf("GroupingNode", {"a"}))),
    Concat(<<Leaf("NonNode", {"a"}),
             Unary("BackwardsNode", Unary("GoToNode", StartsWith(<<"a">>)))>>) }

\* Bodies of b, which is defined inside the backwardmode section.
BackwardBodies ==
  DirectedCommands \cup
  { Unary("BackwardsNode", RoutineCallTo("f")),
    Concat(<<Leaf("GroupingNode", {"a"}), RoutineCallTo("f")>>) }

\* Bodies of check.
ExternalBodies ==
  { Unary("BackwardsNode", RoutineCallTo("b")),
    Concat(<<RoutineCallTo("f"), Unary("BackwardsNode", RoutineCallTo("b"))>>),
    Concat(<<Unary("DoNode", Unary("BackwardsNode", RoutineCallTo("b"))), RoutineCallTo("f")>>),
    Unary("BackwardsNode",
          Concat(<<Leaf("NonNode", {"a"}),
                   Unary("BackwardsNode", RoutineCallTo("f")), RoutineCallTo("b")>>)),
    RoutineCallTo("b"),
    Unary("BackwardsNode", RoutineCallTo("f")) }

RoutineDefinition(name, body) == <<"RoutineDefinitionNode", name, <<body>>>>

Program(check, b, f) ==
  <<"ProgramNode", <<>>,
    << RoutineDefinition("check", check),
       <<"BackwardModeNode", <<>>, <<RoutineDefinition("b", b)>>>>,
       RoutineDefinition("f", f) >>>>

DirectionInit ==
  /\ \E w \in Strings(MaxLen) :
       \E m \in {NewString(w)} :
         /\ chars = m.chars
         /\ cursor = m.cursor
         /\ limit = m.limit
         /\ direction = m.direction
         /\ r = m.r
         /\ left = m.left
         /\ right = m.right
         /\ entry = m
  /\ \E check \in ExternalBodies, b \in BackwardBodies, f \in ForwardBodies :
       node = Program(check, b, f)
  /\ pc = "parsed"
  /\ log = <<>>
  /\ twin = <<>>
  /\ Imported("main")
  /\ thread = <<>>
  /\ result = <<>>
  /\ program = <<>>

\* ProgramNode.generate_code with a new Environment.
GenerateProgram ==
  /\ pc = "parsed"
  /\ \E g \in {Gen(node, <<>>, Environment(1))} :
       /\ result' = [code |-> g.code, class_code |-> g.env.class_code,
                     direction |-> g.env.direction]
       /\ pc' = "generated"
  /\ UNCHANGED <<chars, cursor, limit, direction, r, left, right, node, entry,
                 log, twin, session, local, thread, program>>

\* The module's function check(s): r_check on a new _String.
CallCheck ==
  /\ pc = "generated"
  /\ \E m \in {RoutineCall("check", <<>>, Machine,
                           [module_code |-> <<>>,
                            class_code |-> {result.class_code[i] : i \in DOMAIN result.class_code}])} :
       /\ chars' = m.chars
       /\ cursor' = m.cursor
       /\ limit' = m.limit
       /\ direction' = m.direction
       /\ r' = m.r
       /\ left' = m.left
       /\ right' = m.right
       /\ log' = m.log
       /\ pc' = IF m.ok THEN "done" ELSE "raised"
  /\ UNCHANGED <<node, entry, twin, session, local, thread, result, program>>

DirectionNext ==
  \/ GenerateProgram
  \/ CallCheck

SpecDirection == DirectionInit /\ [][DirectionNext]_vars

\* ------------------------------------------------------------------------
\* Declarations within one parse: parse_string resets the tables, then
\* PROGRAM matches one DECLARATION after the other.  log holds the
\* declarations of the parse, session the tables.
\* ------------------------------------------------------------------------

\* The most declarations of a program.
MaxDeclarations == 3

Keywords ==
  {"strings", "integers", "booleans", "routines", "externals", "groupings"}

\* ZeroOrMore(NAME)
DeclaredNames == {<<>>} \cup NameLists

DeclarationsInit ==
  /\ \E m \in {NewString(<<>>)} :
       /\ chars = m.chars
       /\ cursor = m.cursor
       /\ limit = m.limit
       /\ direction = m.direction
       /\ r = m.r
       /\ left = m.left
       /\ right = m.right
       /\ entry = m
  /\ pc = "parsing"
  /\ node = <<>>
  /\ log = <<>>
  /\ twin = <<>>
  /\ Imported("main")
  /\ thread = <<>>
  /\ result = <<>>
  /\ program = <<>>

\* parse_string on the next program: reset().
NextProgram ==
  /\ log # <<>>
  /\ session' = reset(session)
  /\ log' = <<>>
  /\ node' = <<"parse_string">>
  /\ UNCHANGED <<machine, pc, local, thread, result>>

\* DECLARATION: the parse action of the make_decl of the keyword.
Declare ==
  /\ Len(log) < MaxDeclarations
  /\ \E kw \in Keywords, tokens \in DeclaredNames :
       /\ session' = make_decl(session, kw, tokens)
       /\ node' = <<"declaration", kw, tokens>>
       /\ log' = Append(log, <<"declaration", kw, tokens>>)
  /\ UNCHANGED <<machine, pc, local, thread, result>>

DeclarationsNext ==
  \/ Declare
  \/ NextProgram

SpecDeclarations == DeclarationsInit /\ [][DeclarationsNext]_vars

\* ------------------------------------------------------------------------
\* Properties.  After a command has run, pc = "done", node is the command,
\* entry is the machine it started on, log is the trace of the run and the
\* other variables are the machine it left.
\* ------------------------------------------------------------------------

Done(class) == pc = "done" /\ Class(node) = class

\* The events of one kind at one node, in the order they happened.
Select(ev, at) == SelectSeq(log, LAMBDA e : e.ev = ev /\ e.at = at)

\* The events of one kind, wherever they happened.
SelectAll(ev) == SelectSeq(log, LAMBDA e : e.ev = ev)

\* The only child of a unary command sits at <<1>>.
ChildIn == Select("in", <<1>>)

ChildOut == Select("out", <<1>>)

\* The Len(s) characters next to the cursor of m, in the direction of m,
\* lie between cursor and limit and are s.
Fits(m, s) ==
  IF m.direction = 1
  THEN /\ m.cursor + Len(s) <= m.limit
       /\ \A i \in 1..Len(s) : m.chars[m.cursor + i] = s[i]
  ELSE /\ m.cursor - Len(s) >= m.limit
       /\ \A i \in 1..Len(s) : m.chars[m.cursor - Len(s) + i] = s[i]

\* -------- C1 --------

\* The run was an among, alone or behind a substring.
IsAmongRun ==
  /\ pc = "done"
  /\ \/ Class(node) = "AmongNode"
     \/ /\ Class(node) = "ConcatenationNode"
        /\ Class(Children(node)[1]) = "SubstringNode"

AmongAddr == IF Class(node) = "AmongNode" THEN <<>> ELSE <<Len(Children(node))>>

\* The patterns of the among, each with the number of its arm (from 1).
Patterns ==
  LET strings == Attr(NodeAt(node, AmongAddr)).strings
  IN {<<strings[i][1], strings[i][3] + 1>> : i \in 1..Len(strings)}

Matching == {p \in Patterns : Fits(entry, p[1])}

Longest == CHOOSE n \in {Len(p[1]) : p \in Matching} :
             \A p \in Matching : Len(p[1]) <= n

\* A command stands between the substring and the among.
Separated == Class(node) = "ConcatenationNode" /\ Len(Children(node)) > 2

\* C1: for an among without guard routines, with or without a preceding
\* substring, in forward and in backward mode: if some pattern matches at
\* the cursor within the limit, the matching step succeeds with the cursor
\* moved past the longest matching pattern, exactly one arm is chosen, it
\* contains a longest matching pattern and no other arm's command is run;
\* if no pattern matches, r is false, no arm is chosen and the cursor is
\* unchanged.
C1_AmongLongestMatch ==
  IsAmongRun =>
    LET match == SelectAll("match")
        arm == SelectAll("arm")
    IN /\ Len(match) = 1
       /\ IF Matching # {}
          THEN /\ match[1].r
               /\ match[1].c = entry.cursor + entry.direction * Longest
               /\ Len(arm) = 1
               /\ ~Separated => arm[1].c = match[1].c
               /\ \E p \in Matching :
                    /\ Len(p[1]) = Longest
                    /\ arm[1].at = AmongAddr \o <<-p[2]>>
               /\ \A i \in 1..Len(log) :
                    (/\ log[i].ev = "in"
                     /\ Len(log[i].at) > Len(AmongAddr)
                     /\ SubSeq(log[i].at, 1, Len(AmongAddr)) = AmongAddr)
                      => SubSeq(log[i].at, 1, Len(AmongAddr) + 1) = arm[1].at
          ELSE /\ ~match[1].r
               /\ ~r
               /\ Len(arm) = 0
               /\ cursor = entry.cursor
               /\ chars = entry.chars

\* A backward among behind a substring where patterns of two lengths in
\* two arms match.
C1_Witness ==
  /\ IsAmongRun
  /\ Class(node) = "ConcatenationNode"
  /\ direction = -1
  /\ \E p \in Matching, q \in Matching : Len(p[1]) < Len(q[1]) /\ p[2] # q[2]
  /\ Len(SelectAll("arm")) = 1

\* -------- C2 --------

\* C2: after `try C`, r is true, and the cursor is the cursor C left if C
\* succeeded and the cursor at the start of `try` if C failed.
C2_Try ==
  Done("TryNode") =>
    /\ Len(ChildOut) = 1
    /\ r
    /\ cursor = IF ChildOut[1].r THEN ChildOut[1].c ELSE entry.cursor

\* C failed after it had moved the cursor.
C2_Witness ==
  /\ Done("TryNode")
  /\ ~ChildOut[1].r
  /\ ChildOut[1].c # entry.cursor

\* -------- C3 --------

\* C3: after `test C`, in forward and backward mode, the cursor has the
\* value it had when `test` started, whether C succeeded or failed, and r
\* is the result of C.
C3_Test ==
  Done("TestNode") =>
    /\ Len(ChildOut) = 1
    /\ cursor = entry.cursor
    /\ r = ChildOut[1].r

\* In backward mode C succeeded and moved the cursor.
C3_Witness ==
  /\ Done("TestNode")
  /\ direction = -1
  /\ ChildOut[1].r
  /\ ChildOut[1].c # entry.cursor

\* -------- C4 --------

\* C4 as stated: after `do C`, in forward and in backward mode, r is true
\* and the cursor has the value it had before `do C`.
C4_DoSameValue ==
  Done("DoNode") => (r /\ cursor = entry.cursor)

\* C4: after `do C`, r is true; in forward mode the cursor has the value it
\* had before `do C`, in backward mode its distance from the end of the
\* buffer, len(s) - cursor, is what it was before `do C`.
C4_Do ==
  Done("DoNode") =>
    /\ r
    /\ direction = 1 => cursor = entry.cursor
    /\ direction = -1 => Len(chars) - cursor = Len(entry.chars) - entry.cursor

\* In backward mode C changed the length of the buffer.
C4_Witness ==
  /\ Done("DoNode")
  /\ direction = -1
  /\ Len(chars) # Len(entry.chars)

\* -------- C5 --------

\* The number of alternatives of a chain that nests to the left.
RECURSIVE Arity(_)
Arity(n) == IF Class(n) = "OrNode" THEN Arity(Children(n)[1]) + 1 ELSE 1

\* The address of alternative k of a chain of n.
AltAddr(n, k) ==
  IF k = 1
  THEN [i \in 1..(n - 1) |-> 1]
  ELSE [i \in 1..(n - k) |-> 1] \o <<2>>

\* Where in the log the event of a kind at a node stands (0: nowhere).
Pos(ev, at) ==
  IF \E i \in 1..Len(log) : log[i].ev = ev /\ log[i].at = at
  THEN CHOOSE i \in 1..Len(log) : log[i].ev = ev /\ log[i].at = at
  ELSE 0

\* C5: in a chain `C1 or ... or Cn` the alternatives run in order, each at
\* most once and each from the cursor the chain started with; Ck+1 runs
\* exactly if C1..Ck all failed; the chain ends with the r and the cursor
\* of the last alternative run, which is the first that succeeded, or Cn.
C5_Or ==
  Done("OrNode") =>
    LET n == Arity(node)
        ran(k) == Len(Select("in", AltAddr(n, k))) = 1
        in(k) == Select("in", AltAddr(n, k))[1]
        out(k) == Select("out", AltAddr(n, k))[1]
        last == CHOOSE k \in 1..n : ran(k) /\ \A j \in (k + 1)..n : ~ran(j)
    IN /\ ran(1)
       /\ \A k \in 1..n :
            /\ Len(Select("in", AltAddr(n, k))) <= 1
            /\ Len(Select("out", AltAddr(n, k))) = Len(Select("in", AltAddr(n, k)))
            /\ ran(k) => in(k).c = entry.cursor
       /\ \A k \in 1..(n - 1) :
            /\ ran(k + 1) <=> (ran(k) /\ ~out(k).r)
            /\ ran(k + 1) => Pos("out", AltAddr(n, k)) < Pos("in", AltAddr(n, k + 1))
       /\ out(last).r \/ last = n
       /\ r = out(last).r
       /\ cursor = out(last).c

\* A chain of three whose first alternative failed after it had moved the
\* cursor, and whose third alternative ran.
C5_Witness ==
  /\ Done("OrNode")
  /\ Arity(node) = 3
  /\ Len(Select("in", AltAddr(3, 3))) = 1
  /\ Select("out", AltAddr(3, 1))[1].c # entry.cursor

\* -------- C6 --------

\* C6: `goto C` started at cursor c0 attempts C at c0, c0 + d, c0 + 2d, ...
\* (d the direction); it stops after the first attempt that ends with r
\* true or with the cursor at the limit, leaves the cursor where that last
\* attempt started and leaves r as that attempt's result.
C6_GoTo ==
  Done("GoToNode") =>
    LET K == Len(ChildIn)
    IN /\ K >= 1
       /\ Len(ChildOut) = K
       /\ \A k \in 1..K : ChildIn[k].c = entry.cursor + (k - 1) * direction
       /\ \A k \in 1..(K - 1) : ~(ChildOut[k].r \/ ChildOut[k].c = ChildOut[k].l)
       /\ ChildOut[K].r \/ ChildOut[K].c = ChildOut[K].l
       /\ cursor = ChildIn[K].c
       /\ r = ChildOut[K].r

\* A backward goto that succeeded at its third attempt, after an attempt
\* that had moved the cursor.
C6_Witness ==
  /\ Done("GoToNode")
  /\ direction = -1
  /\ Len(ChildIn) >= 3
  /\ ChildOut[Len(ChildOut)].r
  /\ \E k \in 1..(Len(ChildOut) - 1) : ChildOut[k].c # ChildIn[k].c

\* -------- C7 --------

\* C7: `gopast C` started at cursor c0 attempts C at c0, c0 + d, c0 + 2d,
\* ..., one unit further per failed attempt; it stops after the first
\* attempt that ends with r true or with the cursor at the limit, and
\* leaves the cursor where that last attempt left it and r as its result.
C7_GoPast ==
  Done("GoPastNode") =>
    LET K == Len(ChildIn)
    IN /\ K >= 1
       /\ Len(ChildOut) = K
       /\ \A k \in 1..K : ChildIn[k].c = entry.cursor + (k - 1) * direction
       /\ \A k \in 1..(K - 1) : ~(ChildOut[k].r \/ ChildOut[k].c = ChildOut[k].l)
       /\ ChildOut[K].r \/ ChildOut[K].c = ChildOut[K].l
       /\ cursor = ChildOut[K].c
       /\ r = ChildOut[K].r

\* What the emitted loop does: each attempt starts one unit beyond the
\* place where the failed attempt before it left the cursor.
GoPastAsEmitted ==
  Done("GoPastNode") =>
    LET K == Len(ChildIn)
    IN /\ K >= 1
       /\ Len(ChildOut) = K
       /\ ChildIn[1].c = entry.cursor
       /\ \A k \in 1..(K - 1) :
            /\ ~(ChildOut[k].r \/ ChildOut[k].c = ChildOut[k].l)
            /\ ChildIn[k + 1].c = ChildOut[k].c + direction
       /\ ChildOut[K].r \/ ChildOut[K].c = ChildOut[K].l
       /\ cursor = ChildOut[K].c
       /\ r = ChildOut[K].r

\* A failed attempt of a gopast that had moved the cursor was followed by
\* another attempt.
GoPastSkips ==
  /\ Done("GoPastNode")
  /\ \E k \in 1..(Len(ChildIn) - 1) : ChildOut[k].c # ChildIn[k].c

\* -------- C8 --------

\* C8: `repeat C` runs C again and again, each execution from where the
\* one before left the cursor, until an execution fails; it leaves the
\* cursor at the value it had at the start of the failed execution and r
\* true.
C8_Repeat ==
  Done("RepeatNode") =>
    LET K == Len(ChildIn)
    IN /\ K >= 1
       /\ Len(ChildOut) = K
       /\ ChildIn[1].c = entry.cursor
       /\ \A k \in 1..(K - 1) : ChildOut[k].r /\ ChildIn[k + 1].c = ChildOut[k].c
       /\ ~ChildOut[K].r
       /\ cursor = ChildIn[K].c
       /\ r

\* After a successful execution, an execution failed after it had moved
\* the cursor.
C8_Witness ==
  /\ Done("RepeatNode")
  /\ Len(ChildIn) >= 2
  /\ ChildOut[Len(ChildOut)].c # ChildIn[Len(ChildIn)].c

\* -------- C9 --------

\* C9: `atleast N C` runs C N times, whatever r is in between, each
\* execution from where the one before left the cursor, and then runs C
\* until an execution fails, where it leaves the cursor at the start of the
\* failed execution and r true; the machine it leaves is the one `repeat C`
\* leaves when run on the machine `loop N C` leaves.
C9_AtLeast ==
  Done("AtLeastNode") =>
    LET N == Attr(node)
        C == Children(node)[1]
        K == Len(ChildIn)
        looped == RunOn(<<"LoopNode", N, <<C>>>>, entry)
        repeated == RunOn(Unary("RepeatNode", C), looped)
    IN /\ K >= N + 1
       /\ Len(ChildOut) = K
       /\ ChildIn[1].c = entry.cursor
       /\ \A k \in 1..(K - 1) : ChildIn[k + 1].c = ChildOut[k].c
       /\ \A k \in (N + 1)..(K - 1) : ChildOut[k].r
       /\ ~ChildOut[K].r
       /\ cursor = ChildIn[K].c
       /\ r
       /\ Len(SelectSeq(looped.log, LAMBDA e : e.ev = "in" /\ e.at = <<1>>)) = N
       /\ looped.ok /\ repeated.ok
       /\ chars = repeated.chars
       /\ cursor = repeated.cursor
       /\ limit = repeated.limit
       /\ direction = repeated.direction
       /\ r = repeated.r
       /\ left = repeated.left
       /\ right = repeated.right

\* An atleast 2 whose first execution failed and whose second succeeded.
C9_Witness ==
  /\ Done("AtLeastNode")
  /\ Attr(node) = 2
  /\ ~ChildOut[1].r
  /\ ChildOut[2].r

\* -------- C10 --------

\* C10: starts_with(chars) returns true and moves the cursor by len(chars)
\* in the current direction exactly when the len(chars) characters next to
\* the cursor in that direction lie between cursor and limit and are
\* chars; otherwise it returns false and leaves the cursor where it was.
C10_StartsWith ==
  Done("StartsWithNode") =>
    LET s == Attr(node)
    IN /\ r = Fits(entry, s)
       /\ cursor = IF Fits(entry, s)
                   THEN entry.cursor + Len(s) * entry.direction
                   ELSE entry.cursor
       /\ chars = entry.chars
       /\ limit = entry.limit

\* A backward check of two different characters that succeeded.
C10_Witness ==
  /\ Done("StartsWithNode")
  /\ direction = -1
  /\ Len(Attr(node)) = 2
  /\ Attr(node)[1] # Attr(node)[2]
  /\ r

\* -------- C11 --------

\* The number of characters between cursor and limit of m.
Room(m) == IF m.direction = 1 THEN m.limit - m.cursor ELSE m.cursor - m.limit

\* C11: hop(n) returns true and moves the cursor by n * direction exactly
\* when n >= 0 and at least n characters lie between cursor and limit;
\* otherwise it returns false and leaves the cursor where it was.
C11_Hop ==
  Done("HopNode") =>
    LET n == Attr(node)
        can == n >= 0 /\ Room(entry) >= n
    IN /\ r = can
       /\ cursor = IF can THEN entry.cursor + n * entry.direction ELSE entry.cursor
       /\ chars = entry.chars
       /\ limit = entry.limit

\* A backward hop over two characters.
C11_Witness ==
  /\ Done("HopNode")
  /\ direction = -1
  /\ Attr(node) = 2
  /\ r
  /\ cursor = entry.cursor - 2

\* -------- C12 --------

\* The buffer of m with s put in at position p.
PutIn(m, p, s) == SubSeq(m.chars, 1, p) \o s \o SubSeq(m.chars, p + 1, Len(m.chars))

\* C12 as stated: insert(chars) puts chars into the buffer at the cursor
\* and returns true; in forward mode cursor and limit grow by len(chars);
\* in backward mode the cursor moves by len(chars) and the limit stays.
C12_InsertMovesCursor ==
  Done("InsertNode") =>
    LET n == Len(Attr(node))
    IN /\ r
       /\ chars = PutIn(entry, entry.cursor, Attr(node))
       /\ direction = 1 => (cursor = entry.cursor + n /\ limit = entry.limit + n)
       /\ direction = -1 =>
            /\ cursor \in {entry.cursor + n, entry.cursor - n}
            /\ limit = entry.limit

\* C12: insert(chars) puts chars into the buffer at the cursor and returns
\* true; in forward mode cursor and limit grow by len(chars); in backward
\* mode neither the cursor nor the limit changes its value, which leaves
\* the cursor on the far side of the inserted text.
C12_Insert ==
  Done("InsertNode") =>
    LET n == Len(Attr(node))
    IN /\ r
       /\ chars = PutIn(entry, entry.cursor, Attr(node))
       /\ direction = 1 => (cursor = entry.cursor + n /\ limit = entry.limit + n)
       /\ direction = -1 => (cursor = entry.cursor /\ limit = entry.limit)

\* A backward insert of two characters inside the buffer.
C12_Witness ==
  /\ Done("InsertNode")
  /\ direction = -1
  /\ Len(Attr(node)) = 2
  /\ entry.cursor > 0
  /\ entry.cursor < Len(entry.chars)

\* -------- C13 --------

Abs(x) == IF x < 0 THEN -x ELSE x

\* C13: set_range(start, stop, chars) replaces the characters between start
\* and stop by chars and returns true; where it changes the cursor or the
\* limit, it changes them by the change of the buffer's length in absolute
\* value, in both directions; in forward mode a cursor and a limit at or
\* beyond stop are shifted by that change, and so are, in backward mode, a
\* cursor and a limit beyond start.
C13_SetRange ==
  Done("set_range") =>
    LET a == Attr(node)
        lo == Min(a.start, a.stop)
        hi == Max(a.start, a.stop)
        delta == Len(a.chars) - (hi - lo)
    IN /\ r
       /\ chars = SubSeq(entry.chars, 1, lo) \o a.chars
                    \o SubSeq(entry.chars, hi + 1, Len(entry.chars))
       /\ cursor # entry.cursor => Abs(cursor - entry.cursor) = Abs(delta)
       /\ limit # entry.limit => Abs(limit - entry.limit) = Abs(delta)
       /\ direction = 1 =>
            /\ entry.cursor >= a.stop => cursor = entry.cursor + delta
            /\ entry.limit >= a.stop => limit = entry.limit + delta
       /\ direction = -1 =>
            /\ entry.cursor > a.start => cursor = entry.cursor + delta
            /\ entry.limit > a.start => limit = entry.limit + delta

\* What set_range does to cursor and limit: in forward mode both move by
\* the change of the length if the cursor is at or beyond stop, and none
\* moves otherwise; in backward mode each moves if it is beyond start, by
\* minus the sum of len(chars) and the number of replaced characters.
SetRangeAsWritten ==
  Done("set_range") =>
    LET a == Attr(node)
        rep == Abs(a.stop - a.start)
    IN /\ direction = 1 =>
            IF entry.cursor >= a.stop
            THEN /\ cursor = entry.cursor + Len(a.chars) - rep
                 /\ limit = entry.limit + Len(a.chars) - rep
            ELSE cursor = entry.cursor /\ limit = entry.limit
       /\ direction = -1 =>
            /\ cursor = IF entry.cursor > a.start
                        THEN entry.cursor - (Len(a.chars) + rep)
                        ELSE entry.cursor
            /\ limit = IF entry.limit > a.start
                       THEN entry.limit - (Len(a.chars) + rep)
                       ELSE entry.limit

\* In forward mode the cursor stood before stop and the limit beyond it
\* when the length of the buffer changed.
SetRangeBeforeStop ==
  /\ Done("set_range")
  /\ direction = 1
  /\ entry.cursor < Attr(node).stop
  /\ entry.limit >= Attr(node).stop
  /\ Len(chars) # Len(entry.chars)

\* -------- C14 --------

\* The backward machine is the mirror image of the twin: the buffer
\* reversed, cursor and limit counted from the other end.
Mirrored ==
  /\ chars = Reverse(twin.chars)
  /\ cursor = Len(twin.chars) - twin.cursor
  /\ limit = Len(twin.chars) - twin.limit

\* C14: after every sequence of starts_with, hop, grouping check, insert,
\* attach, to_mark and set_range applied in backward mode to a buffer w
\* (cursor = len, limit = 0), chars, cursor and limit are the mirror image
\* of what the mirrored sequence leaves in forward mode on w reversed.
C14_Duality == pc = "dual" => Mirrored

\* The same for the sequences without set_range.
DualityApartFromSetRange ==
  (pc = "dual" /\ \A i \in 1..Len(log) : log[i] # "set_range") => Mirrored

\* The results of the two machines' last operations agree as well.
DualResults ==
  (pc = "dual" /\ \A i \in 1..Len(log) : log[i] # "set_range") => r = twin.r

\* Text was put into the buffer behind the cursor by a set_range.
DualSetRangeBehindCursor ==
  /\ pc = "dual"
  /\ Len(log) >= 1
  /\ log[Len(log)] = "set_range"
  /\ Len(Attr(node).chars) > 0
  /\ ~Mirrored

\* -------- C17 --------

\* The set an atom of a grouping definition stands for.
AtomSet(atom) ==
  IF Class(atom) = "CharSetNode" THEN CharSet(Attr(atom)) ELSE {"a"}

\* The operators applied from left to right, + as union and - as difference,
\* to the first n atoms of tokens.
RECURSIVE LeftToRight(_, _)
LeftToRight(tokens, n) ==
  IF n = 1
  THEN AtomSet(tokens[1])
  ELSE IF tokens[2 * n - 2] = "+"
       THEN LeftToRight(tokens, n - 1) \cup AtomSet(tokens[2 * n - 1])
       ELSE LeftToRight(tokens, n - 1) \ AtomSet(tokens[2 * n - 1])

\* C17: the grouping defined by `define g A1 op1 A2 ... An` is the set that
\* applying the operators from left to right gives, + as union and - as
\* difference, and the check `g` succeeds, stepping over one character,
\* exactly when there is a character between cursor and limit and the one
\* next to the cursor is in that set.
C17_Grouping ==
  Done("define") =>
    LET tokens == Attr(node)
        set == LeftToRight(tokens, (Len(tokens) + 1) \div 2)
        here == IF direction = 1 THEN entry.cursor + 1 ELSE entry.cursor
        in == entry.cursor # entry.limit /\ entry.chars[here] \in set
    IN /\ r = in
       /\ cursor = IF in THEN entry.cursor + direction ELSE entry.cursor
       /\ chars = entry.chars
       /\ limit = entry.limit

\* A definition `A1 - A2 + A3` whose set differs from A1 - (A2 + A3), checked
\* in backward mode on a character that is in the set.
C17_Witness ==
  /\ Done("define")
  /\ Len(Attr(node)) = 5
  /\ Attr(node)[2] = "-"
  /\ Attr(node)[4] = "+"
  /\ LeftToRight(Attr(node), 3)
       # AtomSet(Attr(node)[1]) \ (AtomSet(Attr(node)[3]) \cup AtomSet(Attr(node)[5]))
  /\ direction = -1
  /\ r

\* -------- C18 --------

IsReference == pc = "parsing" /\ node # <<>> /\ node[1] = "Reference"

\* The names the declarations so far have put on a list, in their order:
\* a declaration adds to the list of its keyword, `externals` also to the
\* routines.
RECURSIVE DeclaredOn(_, _)
DeclaredOn(list, declarations) ==
  IF declarations = <<>> THEN <<>>
  ELSE LET d == Last(declarations)
       IN DeclaredOn(list, Front(declarations)) \o
          (IF d[2] = list \/ (d[2] = "externals" /\ list = "routines")
           THEN d[3] ELSE <<>>)

\* A letter, a digit or an underscore.
IsWordChar(c) ==
  c = "_" \/ ord(c) \in (48..57) \cup (65..90) \cup (97..122)

\* The name stands in the text at loc and the text ends behind it or goes
\* on with a character that cannot be part of a name.
NameFits(name, instring, loc) ==
  /\ loc + Len(name) <= Len(instring)
  /\ \A i \in 1..Len(name) : instring[loc + i] = name[i]
  /\ \/ loc + Len(name) = Len(instring)
     \/ ~IsWordChar(instring[loc + Len(name) + 1])

\* C18: for every list of declared names and every position, the
\* reference terminal returns the longest declared name that stands at
\* the position and is followed by the end of the text or by a character
\* that is no letter, digit or underscore, and moves behind it; it fails
\* with a ParseException that lists the candidates iff no declared name
\* does so; the names are those declared so far in the parse.
C18_Reference ==
  IsReference =>
    LET names == DeclaredOn(node[2], log)
        instring == node[3]
        loc == node[4]
        fits == {i \in 1..Len(names) : NameFits(names[i], instring, loc)}
    IN IF fits = {}
       THEN /\ ~result.ok
            /\ result.error = "ParseException"
            /\ {result.msg[i] : i \in 1..Len(result.msg)}
                 = {names[i] : i \in 1..Len(names)}
       ELSE /\ result.ok
            /\ \E i \in fits :
                 /\ result.tok = names[i]
                 /\ \A j \in fits : Len(names[j]) <= Len(names[i])
            /\ result.loc = loc + Len(result.tok)

\* A name of the second declaration is returned although a shorter name
\* of the first one stands at the position too, followed by an underscore.
C18_Witness ==
  /\ IsReference
  /\ Len(log) = 2
  /\ result.ok
  /\ result.tok \in {log[2][3][i] : i \in 1..Len(log[2][3])}
  /\ result.tok \notin {log[1][3][i] : i \in 1..Len(log[1][3])}
  /\ \E i \in 1..Len(log[1][3]) :
       /\ Len(log[1][3][i]) < Len(result.tok)
       /\ startswith(node[3], log[1][3][i], node[4])

\* -------- C19 --------

IsLiteral == pc = "parsing" /\ node # <<>> /\ node[1] = "StringLiteral"

\* Whether position i of the text lies between a left marker and the next
\* right marker, for a literal that opens at loc.
RECURSIVE InEscape(_, _, _, _)
InEscape(instring, loc, i, markers) ==
  IF i <= loc + 1 THEN FALSE
  ELSE IF InEscape(instring, loc, i - 1, markers)
       THEN instring[i] # markers[2]
       ELSE instring[i] = markers[1]

\* The body with every L key R, taken from the left, replaced by the
\* string of the key.
RECURSIVE Substituted(_, _, _)
Substituted(s, markers, defs) ==
  LET keys == {k \in DOMAIN defs :
                 /\ Len(k) + 2 <= Len(s)
                 /\ SubSeq(s, 1, Len(k) + 2)
                      = <<markers[1]>> \o k \o <<markers[2]>>}
  IN IF s = <<>> THEN <<>>
     ELSE IF keys = {}
          THEN <<s[1]>> \o Substituted(Tail(s), markers, defs)
          ELSE LET k == CHOOSE k \in keys : TRUE
               IN defs[k] \o
                  Substituted(SubSeq(s, Len(k) + 3, Len(s)), markers, defs)

\* The closing quotes a literal that opens at loc can have.
ClosingQuotes(instring, loc, markers) ==
  {q \in (loc + 1)..(Len(instring) - 1) :
     instring[q + 1] = "'" /\ ~InEscape(instring, loc, q, markers)}

\* What the scan of a literal is to give under the markers and the defs.
Scanned(instring, loc, markers, defs) ==
  LET quotes == ClosingQuotes(instring, loc, markers)
      q == CHOOSE q \in quotes : \A p \in quotes : q <= p
  IN IF quotes = {} THEN ParseException("Runaway string literal.")
     ELSE Parsed(q + 1, Substituted(SubSeq(instring, loc + 2, q), markers, defs))

\* C19: once a stringescapes directive has set the markers (L, R), a
\* literal ends at the first quote behind its opening quote that does not
\* stand behind an L that no R has closed, and every L key R of its body
\* is replaced by the string of the key; a literal without such a quote
\* is a parse error.
C19_StringLiteral ==
  (/\ IsLiteral
   /\ session.stringescapes # <<>>
   /\ PyItem(node[2], node[3]) = <<"'">>)
  => LET expected == Scanned(node[2], node[3], session.stringescapes,
                             session.stringdefs)
     IN IF expected.ok
        THEN result = expected
        ELSE ~result.ok /\ result.error = "ParseException"

\* Under one marker for both sides a quote behind an opened escape ends
\* the literal.
QuoteInsideEscape ==
  /\ IsLiteral
  /\ session.stringescapes = <<"#", "#">>
  /\ node[2] = <<"'", "#", "'", "#", "'">>
  /\ node[3] = 0
  /\ result = Parsed(3, <<"#">>)

\* The same for markers that differ and strings that hold no marker: the
\* scan is as C19 has it.
ScanUnderDistinctMarkers ==
  (/\ IsLiteral
   /\ session.stringescapes # <<>>
   /\ session.stringescapes[1] # session.stringescapes[2]
   /\ \A k \in DOMAIN session.stringdefs :
        \A i \in 1..Len(session.stringdefs[k]) :
          session.stringdefs[k][i] # session.stringescapes[1]
   /\ PyItem(node[2], node[3]) = <<"'">>)
  => LET expected == Scanned(node[2], node[3], session.stringescapes,
                             session.stringdefs)
     IN IF expected.ok
        THEN result = expected
        ELSE ~result.ok /\ result.error = "ParseException"

\* `stringescapes <>`, `stringdef AE hex '41 45'`, and '<AE>' scans as AE.
ExampleScans ==
  (/\ IsLiteral
   /\ session.stringescapes = <<"<", ">">>
   /\ <<"A", "E">> \in DOMAIN session.stringdefs
   /\ session.stringdefs[<<"A", "E">>] = <<"A", "E">>
   /\ node[2] = <<"'", "<", "A", "E", ">", "'">>
   /\ node[3] = 0)
  => result = Parsed(6, <<"A", "E">>)

ExampleScanned ==
  /\ IsLiteral
  /\ session.stringescapes = <<"<", ">">>
  /\ node[2] = <<"'", "<", "A", "E", ">", "'">>
  /\ result = Parsed(6, <<"A", "E">>)

\* The directive takes the two characters behind the keyword as they
\* stand: written as '<>' they are the quote and <, and the parse ends at
\* the > that is left.
MarkersAsWritten ==
  (node # <<>> /\ node[1] = "stringescapes")
  => LET black == SelectSeq(node[2], LAMBDA c : c # " ")
     IN IF Len(black) < 2
        THEN pc = "failed"
        ELSE /\ session.stringescapes = <<black[1], black[2]>>
             /\ pc = "parsing" <=> Len(black) = 2

\* -------- C15 --------

\* The parse of a program that is the first one after the import.
RECURSIVE ParsedFirst(_, _, _)
ParsedFirst(prog, s, nodes) ==
  IF prog = <<>> THEN [ok |-> TRUE, out |-> nodes, error |-> ""]
  ELSE LET p == ParseAtom(s, TRUE, prog[1])
       IN IF p.ok
          THEN ParsedFirst(Tail(prog), p.session, Append(nodes, p.node))
          ELSE [ok |-> FALSE, out |-> <<>>, error |-> p.error]

\* The names the code of a program takes: the k-th variable is var<k-1>,
\* the k-th among table _a_<k>.
RECURSIVE NamesFromZero(_, _, _)
NamesFromZero(nodes, vars_taken, tables_taken) ==
  IF nodes = <<>> THEN <<>>
  ELSE IF nodes[1] = <<"routine", "TryNode">>
  THEN <<<<"var", vars_taken>>>> \o
       NamesFromZero(Tail(nodes), vars_taken + 1, tables_taken)
  ELSE IF nodes[1] = <<"routine", "AmongNode">>
  THEN <<<<"_a_", tables_taken + 1>>>> \o
       NamesFromZero(Tail(nodes), vars_taken, tables_taken + 1)
  ELSE NamesFromZero(Tail(nodes), vars_taken, tables_taken)

\* What translating the program first gives: the nodes parsed so far, the
\* exception that ended the parse, or the nodes and the names of the code.
TranslatedFirst(th) ==
  LET p == ParsedFirst(th.prog, NewSession, <<>>)
  IN [out |-> IF p.ok /\ th.pc = "done"
              THEN p.out \o NamesFromZero(p.out, 0, 0)
              ELSE p.out,
      error |-> p.error]

\* C15: every translation starts from an empty session -- when
\* parse_string starts to parse, the six lists, the markers and the dict
\* are empty, and the counters of variables and among tables start at 0
\* -- so that, whatever was translated before and however it ended, a
\* program's output is the output of translating it first.
C15_Session ==
  \A t \in DOMAIN thread :
    /\ (thread[t].pc = "parsing" /\ thread[t].prog = <<>>)
         => session = NewSession
    /\ thread[t].pc \in {"parsing", "done", "failed"}
         => [out |-> thread[t].out, error |-> thread[t].error]
              = TranslatedFirst(thread[t])
    /\ thread[t].pc = "failed" <=> thread[t].error # ""

\* parse_string has just emptied lists and a dict that an earlier
\* translation left filled.
C15_Witness ==
  /\ node # <<>>
  /\ node[1] = "translate_string"
  /\ node[3].routines # <<>>
  /\ node[3].stringescapes # <<>>
  /\ <<"b">> \in DOMAIN node[3].stringdefs
  /\ thread[node[2]].pc = "parsing"
  /\ thread[node[2]].prog = <<>>
  /\ session = NewSession

\* -------- C16 --------

\* C16: two translations that run in different threads, their parse steps
\* interleaved in any order, use distinct sessions: what one declares or
\* defines is not visible to the other, and each gives the output it
\* gives when it runs alone.
C16_Threads ==
  \A t \in DOMAIN thread :
    thread[t].pc # "idle"
      => [out |-> thread[t].out, error |-> thread[t].error]
           = TranslatedFirst(thread[t])

\* A translation has failed on the first line of reset() while the other
\* thread is in the middle of its own.
TranslationWithoutState ==
  \E t, u \in DOMAIN thread :
    /\ thread[t].pc = "failed"
    /\ thread[t].error = "AttributeError"
    /\ thread[u].pc = "parsing"
    /\ thread[u].prog # <<>>

\* Only the thread that imported the module gets as far as parsing; its
\* translations are as they are alone, and every translation of another
\* thread ends in reset().
OnlyTheImporterTranslates ==
  \A t \in DOMAIN thread :
    IF t \in local
    THEN thread[t].pc # "idle"
           => [out |-> thread[t].out, error |-> thread[t].error]
                = TranslatedFirst(thread[t])
    ELSE thread[t] \in {Idle, [pc |-> "failed", prog |-> <<>>, out |-> <<>>,
                               error |-> "AttributeError"]}

\* -------- C20 --------

Called == pc = "called"

FieldsOf(prefix) == {f \in DOMAIN entry.fields : f[1] = prefix}

EmptyMachine(m) ==
  m.chars = <<>> /\ m.cursor = 0 /\ m.limit = 0 /\ m.direction = 1

\* C20: the program object a call of an external routine constructs has
\* left and right unset, every declared integer 0, every declared boolean
\* false and every declared string an empty string machine, whatever the
\* calls before have set; so the outcome of a call is that of the same
\* call made first.
C20_ProgramObject ==
  Called =>
    /\ entry.left = <<>>
    /\ entry.right = <<>>
    /\ \A f \in FieldsOf("i_") : entry.fields[f] = 0
    /\ \A f \in FieldsOf("b_") : entry.fields[f] = FALSE
    /\ \A f \in FieldsOf("s_") : EmptyMachine(entry.fields[f])
    /\ \E st \in {External(node[1], node[2])} :
         program = st.self /\ result = [r |-> st.r, s |-> st.s.chars]

\* The check of a boolean that no call has set succeeds.
BooleanTrueBeforeSet ==
  /\ Called
  /\ log = <<<<"check", <<>>>>>>
  /\ entry.fields[<<"b_", "b">>] = TRUE
  /\ result.r = TRUE

\* The object as the emitted __init__ makes it: the same for every call,
\* with the booleans true.
ProgramObjectAsEmitted ==
  Called =>
    /\ entry.left = <<>>
    /\ entry.right = <<>>
    /\ \A f \in FieldsOf("i_") : entry.fields[f] = 0
    /\ \A f \in FieldsOf("b_") : entry.fields[f] = TRUE
    /\ \A f \in FieldsOf("s_") : EmptyMachine(entry.fields[f])
    /\ {f[1] : f \in DOMAIN entry.fields} = {"i_", "b_", "s_"}
    /\ \E st \in {External(node[1], node[2])} :
         program = st.self /\ result = [r |-> st.r, s |-> st.s.chars]

\* An earlier call has changed its own object, and the next call starts
\* from a new one.
CallAfterChange ==
  /\ Called
  /\ Len(log) = 3
  /\ log[1][1] = "count"
  /\ log[2] = <<"export", <<"a", "b">>>>
  /\ log[3][1] = "zero"
  /\ result.r = TRUE

\* -------- C21 --------

\* The table of the among that was run.
StepTable == Attr(NodeAt(node, AmongAddr)).strings

GuardMod == [module_code |-> <<>>, class_code |-> GuardRoutines]

\* Entry i of the table, tested on the machine as it was when the step
\* began: its pattern matches there and its guard, called behind the
\* match, returns true.
SelectableAtStart(i) ==
  /\ Fits(entry, StepTable[i][1])
  /\ StepTable[i][2] # "" =>
       RoutineCall(StepTable[i][2], <<>>,
                   starts_with(entry, StepTable[i][1]), GuardMod).r

\* C21: the substring step tests every entry of the table at the cursor at
\* which the step began.  The first entry whose pattern matches there and
\* whose guard (if any) returns true is selected, whatever the entries
\* before it did; if there is none, r is false, no arm is chosen and the
\* cursor is where the step began.
C21_SubstringStep ==
  IsAmongRun =>
    LET match == SelectAll("match")
        arm == SelectAll("arm")
        able == {i \in 1..Len(StepTable) : SelectableAtStart(i)}
    IN /\ Len(match) = 1
       /\ IF able # {}
          THEN LET first == CHOOSE i \in able : \A j \in able : i <= j
               IN /\ match[1].r
                  /\ Len(arm) = 1
                  /\ arm[1].at = AmongAddr \o <<-(StepTable[first][3] + 1)>>
          ELSE /\ ~match[1].r
               /\ Len(arm) = 0
               /\ match[1].c = entry.cursor

\* An entry is selected whose pattern does not stand at the cursor at which
\* the step began: the entry before it matched there and its guard failed.
SelectedAwayFromStart ==
  /\ IsAmongRun
  /\ Len(SelectAll("arm")) = 1
  /\ \A i \in 1..Len(StepTable) :
       SelectAll("arm")[1].at = AmongAddr \o <<-(StepTable[i][3] + 1)>>
         => ~Fits(entry, StepTable[i][1])

\* No entry is selected and the cursor is not where the step began.
CursorLeftBehindMatch ==
  /\ IsAmongRun
  /\ ~SelectAll("match")[1].r
  /\ SelectAll("match")[1].c # entry.cursor

\* A guard has failed behind a matching pattern.
GuardFailed ==
  \E i \in 1..Len(StepTable) :
    /\ Fits(entry, StepTable[i][1])
    /\ ~SelectableAtStart(i)

\* As long as no guard fails behind a matching pattern, the step is as
\* described.
StepWithoutFailingGuard ==
  (IsAmongRun /\ ~GuardFailed) => C21_SubstringStep

\* A guard is called and returns true.
GuardSucceeded ==
  /\ IsAmongRun
  /\ ~GuardFailed
  /\ \E i \in 1..Len(StepTable) :
       /\ StepTable[i][2] = "nx"
       /\ SelectableAtStart(i)
       /\ \A j \in 1..(i - 1) : ~Fits(entry, StepTable[j][1])

\* -------- C22 --------

\* A slice has been replaced or deleted.
SliceReplaced ==
  \E i \in 1..Len(log) : log[i] \in {"ReplaceSliceNode", "DeleteNode"}

\* C22: after every sequence of starts_with, hop, next, grouping checks,
\* tomark, tolimit, insert, attach and replacement or deletion of the slice
\* between the anchors `[` and `]` have set (also under test, try and do),
\* run from a freshly constructed machine, 0 <= cursor <= limit <= len in
\* forward mode and 0 <= limit <= cursor <= len in backward mode.
C22_CursorWithinLimit == pc = "routine" => WellFormed(Machine)

\* A deletion has left the limit beyond the end of the buffer.
LimitBeyondBuffer ==
  /\ pc = "routine"
  /\ SliceReplaced
  /\ direction = 1
  /\ limit > Len(chars)

\* A replacement in backward mode has left the cursor before the limit.
CursorBeforeLimit ==
  /\ pc = "routine"
  /\ SliceReplaced
  /\ direction = -1
  /\ cursor < limit

\* The sequences that replace no slice keep the cursor within the limit.
WithinLimitApartFromSlices ==
  (pc = "routine" /\ ~SliceReplaced) => WellFormed(Machine)

\* Such a sequence of full length that has changed the buffer and moved the
\* cursor.
SequenceWithoutSlices ==
  /\ pc = "routine"
  /\ ~SliceReplaced
  /\ Len(log) = MaxOps
  /\ chars # entry.chars
  /\ cursor # entry.cursor

\* -------- C23 --------

\* The distance between the limit and the end of the buffer.
BehindLimit(m) == Len(m.chars) - m.limit

\* C23: after `setlimit A for (B)` in which A succeeded, B has run with the
\* limit at the cursor A reached and the cursor where it was before A, and
\* the limit marks the boundary it marked before: in forward mode its
\* distance from the end of the buffer, in backward mode its index is
\* unchanged, whatever B did.  When A fails, B is not run and the limit is
\* unchanged.
C23_SetLimit ==
  Done("SetLimitNode") =>
    LET a == Select("out", <<1>>)
        b == Select("in", <<2>>)
    IN /\ Len(a) = 1
       /\ IF a[1].r
          THEN /\ Len(b) = 1
               /\ b[1].l = a[1].c
               /\ b[1].c = entry.cursor
               /\ IF direction = 1
                  THEN BehindLimit(Machine) = BehindLimit(entry)
                  ELSE limit = entry.limit
          ELSE /\ Len(b) = 0
               /\ limit = entry.limit

\* In backward mode B has made the buffer longer and the limit has moved
\* into the text.
BackwardLimitMoved ==
  /\ Done("SetLimitNode")
  /\ direction = -1
  /\ Select("out", <<1>>)[1].r
  /\ Len(chars) > Len(entry.chars)
  /\ limit > entry.limit

\* What the template does: B runs between the cursor before A and the
\* cursor A reached, and in both directions the limit is put back at its
\* distance from the end of the buffer.
SetLimitAsEmitted ==
  Done("SetLimitNode") =>
    LET a == Select("out", <<1>>)
        b == Select("in", <<2>>)
    IN /\ Len(a) = 1
       /\ IF a[1].r
          THEN /\ Len(b) = 1
               /\ b[1].l = a[1].c
               /\ b[1].c = entry.cursor
               /\ BehindLimit(Machine) = BehindLimit(entry)
          ELSE /\ Len(b) = 0
               /\ limit = entry.limit

\* In forward mode, and in backward mode as long as the length of the
\* buffer is the same afterwards, the command is as described.
SetLimitForward ==
  (Done("SetLimitNode") /\ (direction = 1 \/ Len(chars) = Len(entry.chars)))
    => C23_SetLimit

\* Forward, B has made the buffer longer under a limit that A has lowered.
SetLimitForwardGrown ==
  /\ Done("SetLimitNode")
  /\ direction = 1
  /\ Len(chars) > Len(entry.chars)
  /\ Select("in", <<2>>)[1].l < entry.limit
  /\ entry.limit < Len(entry.chars)

\* -------- C24 --------

\* C24: `backwards C` runs C with the direction negated and with cursor and
\* limit exchanged; afterwards direction and cursor are what they were
\* before, the limit is at its distance from the end of the buffer, and r
\* is the result of C.
C24_Backwards ==
  Done("BackwardsNode") =>
    LET in == Select("in", <<1>>)
        out == Select("out", <<1>>)
    IN /\ Len(in) = 1
       /\ Len(out) = 1
       /\ in[1].d = -entry.direction
       /\ in[1].c = entry.limit
       /\ in[1].l = entry.cursor
       /\ out[1].d = -entry.direction
       /\ direction = entry.direction
       /\ cursor = entry.cursor
       /\ BehindLimit(Machine) = BehindLimit(entry)
       /\ r = out[1].r

\* C has moved the cursor and made the buffer longer, between a cursor and
\* a limit that are apart and with text behind the limit.
C24_Witness ==
  /\ Done("BackwardsNode")
  /\ entry.cursor # entry.limit
  /\ BehindLimit(entry) > 0
  /\ Select("out", <<1>>)[1].c # Select("in", <<1>>)[1].c
  /\ Len(chars) > Len(entry.chars)
  /\ limit # entry.limit

\* backwards inside backwards: the inner command runs in the direction of
\* the outer one and fails.
BackwardsNested ==
  /\ Done("BackwardsNode")
  /\ Class(Children(node)[1]) = "BackwardsNode"
  /\ Select("in", <<1, 1>>)[1].d = entry.direction
  /\ ~r

\* -------- C25 --------

\* The addresses of the nodes of a tree, the commands of its amongs
\* included.
RECURSIVE Addresses(_, _)
Addresses(top, addr) ==
  LET n == NodeAt(top, addr)
      below == UNION {Addresses(top, addr \o <<i>>) : i \in 1..Len(Children(n))}
      arms == IF Class(n) # "AmongNode" THEN {}
              ELSE UNION {Addresses(top, addr \o <<-i>>) :
                            i \in {j \in 1..Len(Attr(n).commands) :
                                     Attr(n).commands[j] # <<>>}}
  IN {addr} \cup below \cup arms

NodesOf(class) == {a \in Addresses(node, <<>>) : Class(NodeAt(node, a)) = class}

\* The match steps and the dispatches of emitted code, each with the
\* address of the node that emitted it and the table index it uses.
RECURSIVE CodeSteps(_, _)
CodeSteps(code, addr) ==
  LET below == UNION {CodeSteps(Children(code)[i], addr \o <<i>>) :
                        i \in 1..Len(Children(code))}
  IN CASE Class(code) = "SubstringNode" ->
            {[kind |-> "match", at |-> addr, index |-> Attr(code)]}
       [] Class(code) = "AmongNode" ->
            {[kind |-> "dispatch", at |-> addr, index |-> Attr(code).among_index]}
            \cup (IF Attr(code).substring
                  THEN {[kind |-> "match", at |-> addr,
                         index |-> Attr(code).among_index]}
                  ELSE {})
            \cup UNION {CodeSteps(Attr(code).commands[i][1], addr \o <<-i>>) :
                          i \in {j \in 1..Len(Attr(code).commands) :
                                   Attr(code).commands[j] # <<>>}}
       [] OTHER -> below

Translated == pc \in {"translated", "done", "raised"}

Steps == CodeSteps(result.code, <<>>)

StepAt(kind, addr) == {s \in Steps : s.kind = kind /\ s.at = addr}

\* The among a substring is paired with: the next among in depth-first
\* order.
PairOf(s) == FindAmong(node, Next_node(node, s))[1]

\* The number of tables `_a_k` in the emitted module.
TablesOf(k) ==
  Cardinality({i \in 1..Len(result.module_code) : result.module_code[i][1] = k})

\* The dispatch at position i of the trace comes behind a match step with
\* the table index of the dispatch.
MatchedBefore(i) ==
  \E d \in StepAt("dispatch", log[i].at) :
    \/ StepAt("match", log[i].at) # {}
    \/ \E j \in 1..(i - 1) :
         /\ log[j].ev = "match"
         /\ \E s \in StepAt("match", log[j].at) : s.index = d.index

\* C25: in a translated program every substring emits the match step with
\* the table index of the next among in depth-first order, which emits the
\* dispatch only; an among without such a substring emits the match step
\* itself; distinct amongs have distinct indices; every index used by a
\* match step has exactly one table; and when the code runs, every dispatch
\* comes behind a match step with its index.
C25_Pairing ==
  Translated =>
    /\ \A s \in NodesOf("SubstringNode") :
         \E m \in StepAt("match", s), d \in StepAt("dispatch", PairOf(s)) :
           /\ m.index = d.index
           /\ StepAt("match", PairOf(s)) = {}
    /\ \A a \in NodesOf("AmongNode") :
         (\A s \in NodesOf("SubstringNode") : PairOf(s) # a)
           => StepAt("match", a) # {}
    /\ \A d1 \in Steps, d2 \in Steps :
         (d1.kind = "dispatch" /\ d2.kind = "dispatch" /\ d1.at # d2.at)
           => d1.index # d2.index
    /\ \A m \in Steps : m.kind = "match" => TablesOf(m.index) = 1
    /\ pc # "raised"
    /\ pc = "done" =>
         \A i \in 1..Len(log) :
           (log[i].ev = "in" /\ log[i].at \in NodesOf("AmongNode"))
             => MatchedBefore(i)

\* Two substrings stand before one among: the first one's match step names
\* a table that the module does not have, and the call of the routine ends
\* in a NameError.
MatchStepWithoutTable ==
  /\ pc = "raised"
  /\ \E s \in NodesOf("SubstringNode") :
       \E m \in StepAt("match", s) : TablesOf(m.index) = 0
  /\ \E s1 \in NodesOf("SubstringNode"), s2 \in NodesOf("SubstringNode") :
       s1 # s2 /\ PairOf(s1) = PairOf(s2)

\* No two substrings have the same next among.
OneSubstringEach ==
  \A s1 \in NodesOf("SubstringNode"), s2 \in NodesOf("SubstringNode") :
    s1 # s2 => PairOf(s1) # PairOf(s2)

\* The programs in which no two substrings have the same next among are
\* translated as described.
PairingOfOneSubstringEach ==
  (Translated /\ OneSubstringEach) => C25_Pairing

\* Such a program with a substring, its among and an among of its own in
\* an arm, which has run.
PairedAndNested ==
  /\ pc = "done"
  /\ OneSubstringEach
  /\ Cardinality(NodesOf("SubstringNode")) = 2
  /\ Cardinality(NodesOf("AmongNode")) = 3
  /\ Len(SelectAll("arm")) >= 2

\* A substring without an among behind it: generate_code raises.
SubstringWithoutAmong ==
  LET open == {s \in NodesOf("SubstringNode") :
                 FindAmong(node, Next_node(node, s)) = <<>>}
  IN /\ pc = "failed" => open # {}
     /\ Translated => open = {}

\* -------- C26 --------

\* The triples of the arguments in the order the strings were written.
RECURSIVE Written(_, _)
Written(args, n) ==
  IF n = 0 THEN <<>>
  ELSE Written(args, n - 1) \o
       [j \in 1..Len(args[n].strs) |->
          <<args[n].strs[j][1], args[n].strs[j][2], n - 1>>]

OfLength(seq, n) == SelectSeq(seq, LAMBDA t : Len(t[1]) = n)

\* C26: the table of an among has one triple (pattern, routine or empty,
\* index of the arm) for every pattern of every arm; a longer pattern
\* stands before a shorter one, and the patterns of one length stand in
\* the order they were written.
C26_Table ==
  pc = "table" =>
    LET written == Written(entry, Len(entry))
    IN /\ Len(result) = Len(written)
       /\ \A k \in 1..Len(result), l \in 1..Len(result) :
            k < l => Len(result[k][1]) >= Len(result[l][1])
       /\ \A n \in 0..MaxLen : OfLength(result, n) = OfLength(written, n)

\* Three arms, patterns of three lengths, and strings of one length from
\* different arms, with and without a routine, written behind longer and
\* behind shorter ones.
C26_Witness ==
  /\ pc = "table"
  /\ Len(entry) = 3
  /\ {Len(result[k][1]) : k \in 1..Len(result)} = {0, 1, 2}
  /\ result # Written(entry, Len(entry))
  /\ \E k \in 1..(Len(result) - 1) :
       /\ Len(result[k][1]) = Len(result[k + 1][1])
       /\ result[k][3] # result[k + 1][3]
       /\ result[k][2] # result[k + 1][2]

\* -------- C27 --------

\* The distance from the cursor to the limit.
Distance(m) == (m.limit - m.cursor) * m.direction

\* An execution of C has left the cursor between the position at which it
\* started and the limit.
InRange(e) ==
  IF direction = 1
  THEN e.c0 <= e.c1 /\ e.c1 <= e.l1
  ELSE e.l1 <= e.c1 /\ e.c1 <= e.c0

SearchLoop == Class(node) \in {"GoToNode", "GoPastNode"}

\* What is required of C: in goto and gopast, every execution has left the
\* cursor in range; in repeat, every successful execution has moved the
\* cursor by at least one unit in the direction of the limit.
Required ==
  IF SearchLoop
  THEN \A i \in 1..Len(log) : InRange(log[i])
  ELSE \A i \in 1..Len(log) :
         log[i].r => (log[i].c1 - log[i].c0) * direction >= 1

\* No execution of C has moved the limit.
LimitKept == \A i \in 1..Len(log) : log[i].l1 = log[i].l0

\* goto and gopast have not executed C more often than the distance from
\* the cursor to the limit, plus one.
Bounded == SearchLoop => Len(log) <= Distance(entry) + 1

\* C27 as stated: goto C and gopast C end after at most (distance from
\* cursor to limit) + 1 executions of C, for every C that leaves the cursor
\* between its starting position and the limit; repeat C ends whenever
\* every successful execution of C moves the cursor at least one unit
\* towards the limit.
C27_AsStated ==
  /\ [](Required => Bounded)
  /\ <>(pc = "done" \/ ~Required)

\* C27: the same, for the commands C that also leave the limit where it
\* was.
C27_Termination ==
  /\ []((Required /\ LimitKept) => Bounded)
  /\ <>(pc = "done" \/ ~(Required /\ LimitKept))

\* A backward gopast has gone all the way to the limit, C failing at every
\* position.
C27_Witness ==
  /\ pc = "done"
  /\ Class(node) = "GoPastNode"
  /\ direction = -1
  /\ Distance(entry) >= 2
  /\ Len(log) = Distance(entry) + 1
  /\ Required
  /\ LimitKept
  /\ ~r

\* A repeat has ended after C has succeeded three times.
RepeatEnded ==
  /\ pc = "done"
  /\ Class(node) = "RepeatNode"
  /\ Len(log) = 4
  /\ Required
  /\ LimitKept

\* A goto is still in its loop after MaxIter executions of a C that has
\* left the cursor in range every time: C has put a character into the
\* buffer and failed, and the limit has moved on with the cursor.
LoopGoesOn ==
  /\ pc = "loop"
  /\ Class(node) = "GoToNode"
  /\ Len(log) = MaxIter
  /\ Required
  /\ ~LimitKept

\* A repeat is still in its loop after MaxIter executions of a C that has
\* succeeded and moved the cursor by one every time: C has put a character
\* in front of the cursor, and the limit has moved on as well.
RepeatGoesOn ==
  /\ pc = "loop"
  /\ Class(node) = "RepeatNode"
  /\ Len(log) = MaxIter
  /\ Required
  /\ ~LimitKept

\* A loop that has ended has left the machine that the emitted loop leaves
\* when it is run in one piece.
PassByPass ==
  pc = "done" =>
    \E m \in {RunOn(node, entry)} :
      /\ m.ok
      /\ chars = m.chars
      /\ cursor = m.cursor
      /\ limit = m.limit
      /\ r = m.r
      /\ left = m.left
      /\ right = m.right


\* ------------------------------------------------------------------------
\* C28.  The generator's direction context: a node below k BackwardsNode
\* and BackwardModeNode ancestors is generated with env.direction =
\* (-1)^k, so the children of such a node are generated with the negated
\* direction and what follows the node with the direction before it, nested
\* nodes included; after the whole program env.direction is +1.
\* ------------------------------------------------------------------------

Turning == {"BackwardsNode", "BackwardModeNode"}

Prefixes(addr) == {SubSeq(addr, 1, k) : k \in 0..Len(addr)}

\* The direction the context has where a node's template is chosen: one
\* turn per BackwardsNode or BackwardModeNode above it, and for a
\* BackwardsNode its own, since it turns the context before it formats
\* itself.
Context(top, addr) ==
  IF Cardinality({a \in Prefixes(addr) :
                    \/ a # addr /\ Class(NodeAt(top, a)) \in Turning
                    \/ a = addr /\ Class(NodeAt(top, a)) = "BackwardsNode"})
       % 2 = 0
  THEN 1 ELSE -1

\* The code generated for the node at addr: a routine's definition and
\* body by the definition's entry in class_code, any other node through its
\* parent.
RECURSIVE CodeAt(_)
CodeAt(addr) ==
  IF addr = <<>> THEN result.code
  ELSE IF Class(NodeAt(node, addr)) = "RoutineDefinitionNode"
  THEN LET d == CHOOSE e \in {result.class_code[i] : i \in DOMAIN result.class_code} : e[3] = addr
       IN <<"RoutineDefinitionNode", d[1], <<d[2]>>, "code", d[4]>>
  ELSE CodeAt(SubSeq(addr, 1, Len(addr) - 1))[3][addr[Len(addr)]]

Generated == pc \in {"generated", "done", "raised"}

Directed == {"GoToNode", "GoPastNode", "DoNode", "GroupingNode", "NonNode"}

\* The address of the definition of a routine.
DefinitionOf(name) ==
  CHOOSE a \in Addresses(node, <<>>) :
    /\ Class(NodeAt(node, a)) = "RoutineDefinitionNode"
    /\ Attr(NodeAt(node, a)) = name

CalledInContext ==
  /\ Context(node, DefinitionOf("check")) = 1
  /\ \A a \in Addresses(node, <<>>) :
       Class(NodeAt(node, a)) = "RoutineCallNode" =>
         Context(node, a) = Context(node, DefinitionOf(Attr(NodeAt(node, a))))

Entered == {i \in 1..Len(log) : log[i].ev = "in" /\ log[i].class \in Directed}

TemplateOf(d) == IF d = 1 THEN "code" ELSE "backwards_code"

C29_DirectionsAgree ==
  (pc \in {"done", "raised"} /\ CalledInContext) =>
    \A i \in Entered : log[i].template = TemplateOf(log[i].d)

\* A call that has run a directed command in each direction.
C29_Witness ==
  /\ pc = "done"
  /\ CalledInContext
  /\ \E i, j \in Entered :
       /\ log[i].d = 1 /\ log[i].template = "code"
       /\ log[j].d = -1 /\ log[j].template = "backwards_code"

\* Without the condition the directions can differ: b called outside
\* `backwards` runs its backward templates on a forward string.
CalledAnywhere ==
  pc \in {"done", "raised"} =>
    \A i \in Entered : log[i].template = TemplateOf(log[i].d)


\* ------------------------------------------------------------------------
\* C30.  After the declarations of a parse the tables strings, integers,
\* booleans, routines and groupings have no name in common, and every name
\* of externals is in routines.
\* ------------------------------------------------------------------------

Tables == {"strings", "integers", "booleans", "routines", "groupings"}

NamesIn(list) == {session[list][i] : i \in DOMAIN session[list]}

ExternalsAreRoutines == NamesIn("externals") \subseteq NamesIn("routines")

C30_TablesDisjoint ==
  /\ \A s, t \in Tables : s # t => NamesIn(s) \cap NamesIn(t) = {}
  /\ ExternalsAreRoutines

\* `strings (a) integers (a)`: a is a string and an integer.
NameInTwoTables ==
  /\ log = <<<<"declaration", "strings", <<<<"a">>>>>>,
             <<"declaration", "integers", <<<<"a">>>>>>>>
  /\ <<"a">> \in NamesIn("strings") \cap NamesIn("integers")

\* The names the declarations of the parse have written, one for each time.
RECURSIVE Flatten(_)
Flatten(ds) == IF ds = <<>> THEN <<>> ELSE Flatten(Front(ds)) \o Last(ds)[3]

DeclaredOnce ==
  \A i, j \in DOMAIN Flatten(log) : Flatten(log)[i] = Flatten(log)[j] => i = j

\* What make_decl does keep: the tables are disjoint as long as the
\* program declares no name twice.
DisjointWhenDeclaredOnce == DeclaredOnce => C30_TablesDisjoint

DeclaredOnceWitness ==
  /\ DeclaredOnce
  /\ NamesIn("externals") # {}
  /\ NamesIn("strings") # {}

====
